---- MODULE Spec2Model ----
(***************************************************************************)
(* PEPL-UI: the Surface tree (PropValue, SurfaceNode, Surface), the ten    *)
(* component builders, the five category validators, the accessibility     *)
(* module and the JSON wire format, as a state machine.                    *)
(*                                                                         *)
(* Representation.                                                         *)
(*   - A PropValue is a record tagged by its variant (field t).            *)
(*   - A number (f64) n/1000 is the integer n: 0.75 is 750, 1.0 is 1000.   *)
(*   - Option<T> is a sequence of length 0 (None) or 1 (Some).             *)
(*   - A BTreeMap<String, V> is the sequence of its <<key, value>> pairs   *)
(*     in iteration order; BTreeInsert keeps it in ascending key order.    *)
(*   - An error string is the record of the parts its format! call fills   *)
(*     in: [kind, comp, key, got].                                         *)
(*   - JSON text is the ordered document tree the serializer writes:       *)
(*     object members are a sequence in the order they are written, so two *)
(*     texts are byte-identical exactly when their trees are equal.        *)
(***************************************************************************)
EXTENDS Integers, Sequences, FiniteSets, TLC

VARIABLES
    builder,   \* the staging struct of the builder in use, or NoBuilder
    node,      \* the SurfaceNode in hand (made by SurfaceNode::new or returned by build()), or NoNode
    result,    \* the last call made (op) and what it returned
    registry   \* the ComponentRegistry the host holds (its components map)

vars == <<builder, node, result, registry>>

-----------------------------------------------------------------------------
(* Bounds of the model. *)

\* Most props a hand-made node (SurfaceNode::new + set_prop) gets.
MaxProps == 2
\* Most optional setter calls on one builder.
MaxSetters == 2
\* Most children given to one node.
MaxChildren == 2

-----------------------------------------------------------------------------
(* Strings: Rust's Ord for str is the lexicographic order of the bytes. *)

\* The characters that occur in keys and component names: the letters a to z are the
\* bytes 97 to 122, A to Z the bytes 65 to 90, the underscore is byte 95.
Letters == "abcdefghijklmnopqrstuvwxyz"

Capitals == "ABCDEFGHIJKLMNOPQRSTUVWXYZ"

CharAt(s, i) == SubSeq(s, i, i)

KeyChars ==
    {"_"} \cup {CharAt(Capitals, i) : i \in 1..Len(Capitals)}
          \cup {CharAt(Letters, i) : i \in 1..Len(Letters)}

\* The byte of each character, tabulated once.
CharCodes ==
    [c \in KeyChars |->
        IF c = "_" THEN 95
        ELSE IF \E i \in 1..Len(Capitals) : CharAt(Capitals, i) = c
        THEN 64 + (CHOOSE i \in 1..Len(Capitals) : CharAt(Capitals, i) = c)
        ELSE 96 + (CHOOSE i \in 1..Len(Letters) : CharAt(Letters, i) = c)]

CharCode(c) == CharCodes[c]

RECURSIVE StrCmpFrom(_, _, _)
StrCmpFrom(a, b, i) ==
    IF i > Len(a) THEN (IF i > Len(b) THEN 0 ELSE -1)
    ELSE IF i > Len(b) THEN 1
    ELSE LET ca == CharCode(CharAt(a, i))
             cb == CharCode(CharAt(b, i))
         IN  IF ca < cb THEN -1
             ELSE IF ca > cb THEN 1
             ELSE StrCmpFrom(a, b, i + 1)

StrLess(a, b) == StrCmpFrom(a, b, 1) = -1

-----------------------------------------------------------------------------
(* BTreeMap<String, V> *)

EmptyMap == <<>>

MapKeys(m) == [i \in 1..Len(m) |-> m[i][1]]

KeySet(m) == {m[i][1] : i \in 1..Len(m)}

HasKey(m, k) == \E i \in 1..Len(m) : m[i][1] = k

\* BTreeMap::get: Some(value) or None.
MapGet(m, k) ==
    IF HasKey(m, k) THEN <<m[CHOOSE i \in 1..Len(m) : m[i][1] = k][2]>> ELSE <<>>

\* An insert that appends the new key after the others (insertion-ordered map).
InsertAppend(m, k, v) ==
    IF HasKey(m, k)
    THEN [i \in 1..Len(m) |-> IF m[i][1] = k THEN <<k, v>> ELSE m[i]]
    ELSE Append(m, <<k, v>>)

\* BTreeMap::insert: replaces the value of an existing key, else puts the pair
\* at its place in ascending key order.
BTreeInsert(m, k, v) ==
    IF HasKey(m, k)
    THEN [i \in 1..Len(m) |-> IF m[i][1] = k THEN <<k, v>> ELSE m[i]]
    ELSE LET below == Cardinality({i \in 1..Len(m) : StrLess(m[i][1], k)})
         IN  SubSeq(m, 1, below) \o <<<<k, v>>>> \o SubSeq(m, below + 1, Len(m))

\* The map holding the pairs of ps, inserted in sequence order.
RECURSIVE MapOf(_)
MapOf(ps) ==
    IF ps = <<>> THEN EmptyMap
    ELSE BTreeInsert(MapOf(SubSeq(ps, 1, Len(ps) - 1)), ps[Len(ps)][1], ps[Len(ps)][2])

-----------------------------------------------------------------------------
(* PropValue *)

None == <<>>
Some(x) == <<x>>

\* The f64 NaN: an integer no number of the model in thousandths comes near.
NaN == -2000000000

PString(s) == [t |-> "String", s |-> s]
PNumber(n) == [t |-> "Number", n |-> n]
PBool(b) == [t |-> "Bool", bool |-> b]
PNil == [t |-> "Nil"]
PColor(r, g, b, a) == [t |-> "Color", r |-> r, g |-> g, b |-> b, a |-> a]
PActionRef(action, args) == [t |-> "ActionRef", action |-> action, args |-> args]
PLambda(id) == [t |-> "Lambda", lambda_id |-> id]
PList(items) == [t |-> "List", items |-> items]
PRecord(fields) == [t |-> "Record", fields |-> fields]

\* PropValue::action
action(name) == PActionRef(name, None)

\* PropValue::action_with_args
action_with_args(name, args) == PActionRef(name, Some(args))

\* PropValue::lambda
lambda(id) == PLambda(id)

\* PropValue::type_name
type_name(v) ==
    CASE v.t = "String" -> "string"
      [] v.t = "Number" -> "number"
      [] v.t = "Bool" -> "bool"
      [] v.t = "Nil" -> "nil"
      [] v.t = "Color" -> "color"
      [] v.t = "ActionRef" -> "action"
      [] v.t = "Lambda" -> "lambda"
      [] v.t = "List" -> "list"
      [] v.t = "Record" -> "record"

IsString(v) == v.t = "String"
IsNumber(v) == v.t = "Number"
IsBool(v) == v.t = "Bool"
IsColor(v) == v.t = "Color"
IsActionRef(v) == v.t = "ActionRef"
IsLambda(v) == v.t = "Lambda"
IsList(v) == v.t = "List"
IsRecord(v) == v.t = "Record"

-----------------------------------------------------------------------------
(* SurfaceNode *)

NoNode == [component_type |-> "", props |-> <<>>, children |-> <<>>, absent |-> TRUE]

\* SurfaceNode::new
NewNode(component_type) ==
    [component_type |-> component_type, props |-> EmptyMap, children |-> <<>>]

\* SurfaceNode::set_prop
set_prop(n, key, value) == [n EXCEPT !.props = BTreeInsert(@, key, value)]

\* SurfaceNode::add_child
add_child(n, child) == [n EXCEPT !.children = Append(@, child)]

-----------------------------------------------------------------------------
(* Error strings *)

\* One error string: which format! call made it (kind), for which component,
\* about which prop or field (key), and the type name or literal it reports (got).
Err(kind, comp, key, got) == [kind |-> kind, comp |-> comp, key |-> key, got |-> got]

\* What {:?} shows of a prop, as far as the checks here read it: the literal of a
\* string, the variant of anything else.
DebugOf(v) == IF IsString(v) THEN v.s ELSE type_name(v)

-----------------------------------------------------------------------------
(* accessibility.rs *)

SemanticRoles ==
    {"Button", "TextField", "ProgressBar", "Heading", "Image", "Link", "Checkbox",
     "Slider", "List", "Dialog", "Alert", "Group", "Region", "Text", "None"}

\* An as_str that writes the roles of two words in snake case.
role_as_str_snake_case(r) ==
    CASE r = "Button" -> "button"
      [] r = "TextField" -> "text_field"
      [] r = "ProgressBar" -> "progress_bar"
      [] r = "Heading" -> "heading"
      [] r = "Image" -> "image"
      [] r = "Link" -> "link"
      [] r = "Checkbox" -> "checkbox"
      [] r = "Slider" -> "slider"
      [] r = "List" -> "list"
      [] r = "Dialog" -> "dialog"
      [] r = "Alert" -> "alert"
      [] r = "Group" -> "group"
      [] r = "Region" -> "region"
      [] r = "Text" -> "text"
      [] r = "None" -> "none"

\* SemanticRole::as_str
role_as_str(r) ==
    CASE r = "Button" -> "button"
      [] r = "TextField" -> "textfield"
      [] r = "ProgressBar" -> "progressbar"
      [] r = "Heading" -> "heading"
      [] r = "Image" -> "image"
      [] r = "Link" -> "link"
      [] r = "Checkbox" -> "checkbox"
      [] r = "Slider" -> "slider"
      [] r = "List" -> "list"
      [] r = "Dialog" -> "dialog"
      [] r = "Alert" -> "alert"
      [] r = "Group" -> "group"
      [] r = "Region" -> "region"
      [] r = "Text" -> "text"
      [] r = "None" -> "none"

\* A parse that takes a role name in either case of its first letter.
role_parse_lenient(s) == IF s \in {"link", "Link"} THEN Some("Link") ELSE None

\* SemanticRole::parse: Some(role) or None.
role_parse(s) ==
    CASE s = "button" -> Some("Button")
      [] s = "textfield" -> Some("TextField")
      [] s = "progressbar" -> Some("ProgressBar")
      [] s = "heading" -> Some("Heading")
      [] s = "image" -> Some("Image")
      [] s = "link" -> Some("Link")
      [] s = "checkbox" -> Some("Checkbox")
      [] s = "slider" -> Some("Slider")
      [] s = "list" -> Some("List")
      [] s = "dialog" -> Some("Dialog")
      [] s = "alert" -> Some("Alert")
      [] s = "group" -> Some("Group")
      [] s = "region" -> Some("Region")
      [] s = "text" -> Some("Text")
      [] s = "none" -> Some("None")
      [] OTHER -> None

\* SemanticRole::valid_values
valid_values ==
    <<"button", "textfield", "progressbar", "heading", "image", "link", "checkbox",
      "slider", "list", "dialog", "alert", "group", "region", "text", "none">>

\* An as_str that writes the names of the variants.
live_region_as_str_variant_names(l) ==
    CASE l = "Polite" -> "Polite"
      [] l = "Assertive" -> "Assertive"

\* LiveRegion::as_str
live_region_as_str(l) ==
    CASE l = "Polite" -> "polite"
      [] l = "Assertive" -> "assertive"

\* LiveRegion::parse
live_region_parse(s) ==
    CASE s = "polite" -> Some("Polite")
      [] s = "assertive" -> Some("Assertive")
      [] OTHER -> None

\* AccessibilityInfo::new
NewInfo(label) ==
    [label |-> label, hint |-> None, role |-> None, value |-> None, live_region |-> None]

\* AccessibilityInfo::new(label) followed by the setters hint, role, value and
\* live_region for each argument that is Some.
InfoOf(label, hint, role, value, live_region) ==
    LET i0 == NewInfo(label)
        i1 == IF hint # None THEN [i0 EXCEPT !.hint = Some(hint[1])] ELSE i0
        i2 == IF role # None THEN [i1 EXCEPT !.role = Some(role[1])] ELSE i1
        i3 == IF value # None THEN [i2 EXCEPT !.value = Some(value[1])] ELSE i2
    IN  IF live_region # None THEN [i3 EXCEPT !.live_region = Some(live_region[1])] ELSE i3

\* A to_prop_value that leaves out a hint or value that is the empty string.
to_prop_value_skipping_empty(info) ==
    LET f1 == BTreeInsert(EmptyMap, "label", PString(info.label))
        f2 == IF info.hint # None /\ info.hint[1] # ""
              THEN BTreeInsert(f1, "hint", PString(info.hint[1])) ELSE f1
        f3 == IF info.role # None
              THEN BTreeInsert(f2, "role", PString(role_as_str(info.role[1])))
              ELSE f2
        f4 == IF info.value # None /\ info.value[1] # ""
              THEN BTreeInsert(f3, "value", PString(info.value[1])) ELSE f3
        f5 == IF info.live_region # None
              THEN BTreeInsert(f4, "live_region", PString(live_region_as_str(info.live_region[1])))
              ELSE f4
    IN  PRecord(f5)

\* AccessibilityInfo::to_prop_value
to_prop_value(info) ==
    LET f1 == BTreeInsert(EmptyMap, "label", PString(info.label))
        f2 == IF info.hint # None THEN BTreeInsert(f1, "hint", PString(info.hint[1])) ELSE f1
        f3 == IF info.role # None
              THEN BTreeInsert(f2, "role", PString(role_as_str(info.role[1])))
              ELSE f2
        f4 == IF info.value # None THEN BTreeInsert(f3, "value", PString(info.value[1])) ELSE f3
        f5 == IF info.live_region # None
              THEN BTreeInsert(f4, "live_region", PString(live_region_as_str(info.live_region[1])))
              ELSE f4
    IN  PRecord(f5)

\* A default_role that takes every other name for a container.
default_role_unmapped_group(component_type) ==
    CASE component_type = "Button" -> "Button"
      [] component_type = "TextInput" -> "TextField"
      [] component_type = "Text" -> "Text"
      [] component_type = "ProgressBar" -> "ProgressBar"
      [] component_type = "Scroll" -> "Region"
      [] component_type = "ScrollList" -> "List"
      [] component_type = "Modal" -> "Dialog"
      [] component_type = "Toast" -> "Alert"
      [] OTHER -> "Group"

\* default_role
default_role(component_type) ==
    CASE component_type = "Button" -> "Button"
      [] component_type = "TextInput" -> "TextField"
      [] component_type = "Text" -> "Text"
      [] component_type = "ProgressBar" -> "ProgressBar"
      [] component_type = "Column" -> "Group"
      [] component_type = "Row" -> "Group"
      [] component_type = "Scroll" -> "Region"
      [] component_type = "ScrollList" -> "List"
      [] component_type = "Modal" -> "Dialog"
      [] component_type = "Toast" -> "Alert"
      [] OTHER -> "None"

\* An extract_string_prop that shows a value that is no string by its type name.
extract_string_prop_any(props, key) ==
    LET got == MapGet(props, key)
    IN  IF got = None THEN None
        ELSE IF IsString(got[1]) THEN Some(got[1].s) ELSE Some(type_name(got[1]))

\* extract_string_prop: Some(string) or None.
extract_string_prop(props, key) ==
    LET got == MapGet(props, key)
    IN  IF got # None /\ IsString(got[1]) THEN Some(got[1].s) ELSE None

\* unwrap_or_else(|| default)
UnwrapOr(opt, default) == IF opt # None THEN opt[1] ELSE default

\* A percentage that drops the fraction instead of rounding.
Percent_truncating(n) ==
    IF n = NaN THEN 0
    ELSE IF n >= 0 THEN n \div 10 ELSE 0 - ((0 - n) \div 10)

\* (v * 100.0).round() as i64, for v = n/1000: f64::round rounds half away from zero,
\* and the cast of NaN to i64 is 0.
Percent(n) ==
    IF n = NaN THEN 0
    ELSE IF n >= 0 THEN (n + 5) \div 10 ELSE 0 - ((5 - n) \div 10)

\* Text outside ASCII: one character of the model stands for one char of the string,
\* "~" for U+2026 (the ellipsis auto_label appends, 3 bytes in UTF-8), "^" for U+00E9
\* (2 bytes) and "@" for U+20AC (3 bytes); every other character is ASCII (1 byte).
Ellipsis == "~"

\* char::len_utf8
len_utf8(c) == IF c \in {"~", "@"} THEN 3 ELSE IF c = "^" THEN 2 ELSE 1

\* str::len: the length in bytes, the sum of len_utf8 over the chars.
ByteLen(s) ==
    Len(s) + Cardinality({i \in 1..Len(s) : len_utf8(CharAt(s, i)) = 2})
           + 2 * Cardinality({i \in 1..Len(s) : len_utf8(CharAt(s, i)) = 3})

\* The number of leading chars of s that end at or before byte n.
CharsWithin(s, n) ==
    CHOOSE k \in 0..Len(s) :
        /\ ByteLen(SubSeq(s, 1, k)) <= n
        /\ k = Len(s) \/ ByteLen(SubSeq(s, 1, k + 1)) > n

\* str::is_char_boundary
is_char_boundary(s, n) == ByteLen(SubSeq(s, 1, CharsWithin(s, n))) = n

\* &s[..n], where n is a char boundary of s (the slice panics where it is none).
ByteSlice(s, n) == SubSeq(s, 1, CharsWithin(s, n))

\* Whether auto_label panics: the slice &value[..100] of a Text value longer than 100
\* bytes whose byte 100 is inside a char.
auto_label_panics(component_type, props) ==
    /\ component_type = "Text"
    /\ LET value == UnwrapOr(extract_string_prop(props, "value"), "Text")
       IN  ByteLen(value) > 100 /\ ~is_char_boundary(value, 100)

\* auto_label
auto_label(component_type, props) ==
    CASE component_type = "Button" ->
            UnwrapOr(extract_string_prop(props, "label"), "Button")
      [] component_type = "TextInput" ->
            LET l == extract_string_prop(props, "label")
            IN  UnwrapOr(IF l # None THEN l ELSE extract_string_prop(props, "placeholder"),
                         "Text input")
      [] component_type = "Text" ->
            LET value == UnwrapOr(extract_string_prop(props, "value"), "Text")
            IN  IF ByteLen(value) > 100 THEN ByteSlice(value, 100) \o Ellipsis ELSE value
      [] component_type = "ProgressBar" ->
            LET got == MapGet(props, "value")
            IN  IF got # None /\ IsNumber(got[1])
                THEN ToString(Percent(got[1].n)) \o "% complete"
                ELSE "Progress bar"
      [] component_type = "Modal" ->
            UnwrapOr(extract_string_prop(props, "title"), "Dialog")
      [] component_type = "Toast" ->
            UnwrapOr(extract_string_prop(props, "message"), "Notification")
      [] component_type = "ScrollList" -> "List"
      [] OTHER -> component_type

\* An auto_accessible that announces every feedback component (Modal and Toast).
auto_accessible_feedback_live(component_type, props) ==
    LET info0 == [NewInfo(auto_label(component_type, props))
                     EXCEPT !.role = Some(default_role(component_type))]
        got == MapGet(props, "value")
        info1 == IF component_type = "ProgressBar" /\ got # None /\ IsNumber(got[1])
                 THEN [info0 EXCEPT !.value = Some(ToString(Percent(got[1].n)) \o "%")]
                 ELSE info0
    IN  IF component_type \in {"Modal", "Toast"}
        THEN [info1 EXCEPT !.live_region = Some("Assertive")]
        ELSE info1

\* auto_accessible
auto_accessible(component_type, props) ==
    LET role == default_role(component_type)
        label == auto_label(component_type, props)
        info0 == [NewInfo(label) EXCEPT !.role = Some(role)]
        got == MapGet(props, "value")
        info1 == IF component_type = "ProgressBar" /\ got # None /\ IsNumber(got[1])
                 THEN [info0 EXCEPT !.value = Some(ToString(Percent(got[1].n)) \o "%")]
                 ELSE info0
        info2 == IF component_type = "Toast"
                 THEN [info1 EXCEPT !.live_region = Some("Assertive")]
                 ELSE info1
    IN  info2

AccessibleFields == {"label", "hint", "role", "value", "live_region"}

\* The errors of one optional string field (hint, value) of an accessible record.
AccStringField(component_name, fields, f) ==
    LET got == MapGet(fields, f)
    IN  IF got # None /\ ~IsString(got[1])
        THEN <<Err("expected_string", component_name, "accessible." \o f, type_name(got[1]))>>
        ELSE <<>>

\* validate_accessible_prop
validate_accessible_prop(component_name, prop) ==
    IF ~IsRecord(prop)
    THEN <<Err("expected_record", component_name, "accessible", type_name(prop))>>
    ELSE
    LET fields == prop.fields
        label == MapGet(fields, "label")
        eLabel == IF label = None
                  THEN <<Err("required_missing", component_name, "accessible.label", "")>>
                  ELSE IF IsString(label[1]) THEN <<>>
                  ELSE <<Err("expected_string", component_name, "accessible.label",
                             type_name(label[1]))>>
        eHint == AccStringField(component_name, fields, "hint")
        role == MapGet(fields, "role")
        eRole == IF role = None THEN <<>>
                 ELSE IF IsString(role[1])
                 THEN IF role_parse(role[1].s) # None THEN <<>>
                      ELSE <<Err("unknown_role", component_name, "accessible.role", role[1].s)>>
                 ELSE <<Err("expected_string", component_name, "accessible.role",
                            type_name(role[1]))>>
        eValue == AccStringField(component_name, fields, "value")
        live == MapGet(fields, "live_region")
        eLive == IF live = None THEN <<>>
                 ELSE IF IsString(live[1])
                 THEN IF live_region_parse(live[1].s) # None THEN <<>>
                      ELSE <<Err("bad_live_region", component_name, "accessible.live_region",
                                 live[1].s)>>
                 ELSE <<Err("expected_string", component_name, "accessible.live_region",
                            type_name(live[1]))>>
        unknown == SelectSeq(MapKeys(fields), LAMBDA k : k \notin AccessibleFields)
        eUnknown == [i \in 1..Len(unknown) |->
                        Err("unknown_field", component_name, "accessible", unknown[i])]
    IN  eLabel \o eHint \o eRole \o eValue \o eLive \o eUnknown

\* An ensure_accessible that attaches the default whether or not the node has the prop.
ensure_accessible_overwrite(n) ==
    set_prop(n, "accessible", to_prop_value(auto_accessible(n.component_type, n.props)))

\* An ensure_accessible that computes the default from the component type alone.
ensure_accessible_ignoring_props(n) ==
    IF HasKey(n.props, "accessible") THEN n
    ELSE set_prop(n, "accessible", to_prop_value(auto_accessible(n.component_type, EmptyMap)))

\* Whether ensure_accessible panics (in auto_label, before the node is touched).
ensure_accessible_panics(n) ==
    ~HasKey(n.props, "accessible") /\ auto_label_panics(n.component_type, n.props)

\* ensure_accessible
ensure_accessible(n) ==
    IF HasKey(n.props, "accessible") THEN n
    ELSE set_prop(n, "accessible", to_prop_value(auto_accessible(n.component_type, n.props)))

-----------------------------------------------------------------------------
(* The checks the validators are written from *)

RECURSIVE Flatten(_)
Flatten(ss) == IF ss = <<>> THEN <<>> ELSE Head(ss) \o Flatten(Tail(ss))

\* match node.props.get(key) { Some(<right variant>) => {}, Some(other) => push(expected
\* .., got other.type_name()), None => push(required prop missing) }
RequiredCheck(comp, props, key, variant, kind) ==
    LET got == MapGet(props, key)
    IN  IF got = None THEN <<Err("required_missing", comp, key, "")>>
        ELSE IF got[1].t = variant THEN <<>>
        ELSE <<Err(kind, comp, key, type_name(got[1]))>>

\* if let Some(prop) = node.props.get(key) { if !matches!(prop, <right variant>) { push } }
OptionalCheck(comp, props, key, variant, kind) ==
    LET got == MapGet(props, key)
    IN  IF got # None /\ got[1].t # variant
        THEN <<Err(kind, comp, key, type_name(got[1]))>>
        ELSE <<>>

\* if let Some(prop) = node.props.get(key) { match prop { String(s) if s is allowed => {},
\* _ => push(expected one of [..], got {:?}) } }
EnumCheck(comp, props, key, allowed) ==
    LET got == MapGet(props, key)
    IN  IF got # None /\ ~(IsString(got[1]) /\ got[1].s \in allowed)
        THEN <<Err("expected_one_of", comp, key, DebugOf(got[1]))>>
        ELSE <<>>

\* A children check that reports each child on its own.
ChildrenCheckPerChild(comp, n) ==
    [i \in 1..Len(n.children) |-> Err("children", comp, "", ToString(i))]

\* if !node.children.is_empty() { push(does not accept children, but got len) }
ChildrenCheck(comp, n) ==
    IF n.children # <<>>
    THEN <<Err("children", comp, "", ToString(Len(n.children)))>>
    ELSE <<>>

\* for key in node.props.keys() { if !matches!(key, <known>) { push(unknown prop key) } }
UnknownScan(comp, props, known) ==
    LET unknown == SelectSeq(MapKeys(props), LAMBDA k : k \notin known)
    IN  [i \in 1..Len(unknown) |-> Err("unknown_prop", comp, unknown[i], "")]

-----------------------------------------------------------------------------
(* components/layout.rs: validate_layout_node *)

Alignments == {"start", "center", "end", "stretch", "space_between", "space_around"}
ScrollDirections == {"vertical", "horizontal", "both"}

\* One turn of the loop over the props of a Column or Row.
ColumnRowProp(comp, key, val) ==
    CASE key = "spacing" ->
            IF ~IsNumber(val)
            THEN <<Err("must_be_number", comp, key, type_name(val))>> ELSE <<>>
      [] key = "align" ->
            IF IsString(val)
            THEN IF val.s \notin Alignments
                 THEN <<Err("invalid_alignment", comp, key, val.s)>> ELSE <<>>
            ELSE <<Err("must_be_string", comp, key, type_name(val))>>
      [] key = "padding" ->
            IF ~(IsNumber(val) \/ IsRecord(val))
            THEN <<Err("must_be_number_or_record", comp, key, type_name(val))>> ELSE <<>>
      [] key = "accessible" -> validate_accessible_prop(comp, val)
      [] OTHER -> <<Err("unknown_prop", comp, key, "")>>

\* One turn of the loop over the props of a Scroll.
ScrollProp(key, val) ==
    CASE key = "direction" ->
            IF IsString(val)
            THEN IF val.s \notin ScrollDirections
                 THEN <<Err("invalid_direction", "Scroll", key, val.s)>> ELSE <<>>
            ELSE <<Err("must_be_string", "Scroll", key, type_name(val))>>
      [] key = "accessible" -> validate_accessible_prop("Scroll", val)
      [] OTHER -> <<Err("unknown_prop", "Scroll", key, "")>>

\* A validate_layout_node that reports a component it does not handle.
validate_layout_node_reporting(n) ==
    CASE n.component_type \in {"Column", "Row"} ->
            Flatten([i \in 1..Len(n.props) |->
                        ColumnRowProp(n.component_type, n.props[i][1], n.props[i][2])])
      [] n.component_type = "Scroll" ->
            Flatten([i \in 1..Len(n.props) |-> ScrollProp(n.props[i][1], n.props[i][2])])
      [] OTHER -> <<Err("unknown_component", "layout", "", n.component_type)>>

\* validate_layout_node
validate_layout_node(n) ==
    CASE n.component_type \in {"Column", "Row"} ->
            Flatten([i \in 1..Len(n.props) |->
                        ColumnRowProp(n.component_type, n.props[i][1], n.props[i][2])])
      [] n.component_type = "Scroll" ->
            Flatten([i \in 1..Len(n.props) |-> ScrollProp(n.props[i][1], n.props[i][2])])
      [] OTHER -> <<>>

-----------------------------------------------------------------------------
(* components/content.rs: validate_content_node *)

TextSizes == {"small", "body", "title", "heading", "display"}
TextWeights == {"normal", "medium", "bold"}
TextAligns == {"start", "center", "end"}
TextOverflows == {"clip", "ellipsis", "wrap"}

\* The keys validate_text's unknown-prop scan lets pass.
TextKnown == {"value", "size", "weight", "color", "align", "max_lines", "overflow"}

\* validate_text
validate_text(n) ==
    RequiredCheck("Text", n.props, "value", "String", "expected_string")
    \o EnumCheck("Text", n.props, "size", TextSizes)
    \o EnumCheck("Text", n.props, "weight", TextWeights)
    \o OptionalCheck("Text", n.props, "color", "Color", "expected_color")
    \o EnumCheck("Text", n.props, "align", TextAligns)
    \o OptionalCheck("Text", n.props, "max_lines", "Number", "expected_number")
    \o EnumCheck("Text", n.props, "overflow", TextOverflows)
    \o ChildrenCheck("Text", n)
    \o UnknownScan("Text", n.props, TextKnown)

\* The keys validate_progress_bar's unknown-prop scan lets pass.
ProgressBarKnown == {"value", "color", "background", "height"}

\* validate_progress_bar
validate_progress_bar(n) ==
    RequiredCheck("ProgressBar", n.props, "value", "Number", "expected_number")
    \o OptionalCheck("ProgressBar", n.props, "color", "Color", "expected_color")
    \o OptionalCheck("ProgressBar", n.props, "background", "Color", "expected_color")
    \o OptionalCheck("ProgressBar", n.props, "height", "Number", "expected_number")
    \o ChildrenCheck("ProgressBar", n)
    \o UnknownScan("ProgressBar", n.props, ProgressBarKnown)

\* validate_content_node
validate_content_node(n) ==
    CASE n.component_type = "Text" -> validate_text(n)
      [] n.component_type = "ProgressBar" -> validate_progress_bar(n)
      [] OTHER -> <<Err("unknown_component", "content", "", n.component_type)>>

-----------------------------------------------------------------------------
(* components/interactive.rs: validate_interactive_node *)

ButtonVariants == {"filled", "outlined", "text"}
KeyboardTypes == {"text", "number", "email", "phone", "url"}

\* The keys validate_button's unknown-prop scan lets pass.
ButtonKnown == {"label", "on_tap", "variant", "icon", "disabled", "loading"}

\* validate_button
validate_button(n) ==
    RequiredCheck("Button", n.props, "label", "String", "expected_string")
    \o RequiredCheck("Button", n.props, "on_tap", "ActionRef", "expected_action")
    \o EnumCheck("Button", n.props, "variant", ButtonVariants)
    \o OptionalCheck("Button", n.props, "icon", "String", "expected_string")
    \o OptionalCheck("Button", n.props, "disabled", "Bool", "expected_bool")
    \o OptionalCheck("Button", n.props, "loading", "Bool", "expected_bool")
    \o ChildrenCheck("Button", n)
    \o UnknownScan("Button", n.props, ButtonKnown)

\* The keys validate_text_input's unknown-prop scan lets pass.
TextInputKnown ==
    {"value", "on_change", "placeholder", "label", "keyboard", "max_length", "multiline"}

\* validate_text_input
validate_text_input(n) ==
    RequiredCheck("TextInput", n.props, "value", "String", "expected_string")
    \o RequiredCheck("TextInput", n.props, "on_change", "Lambda", "expected_lambda")
    \o OptionalCheck("TextInput", n.props, "placeholder", "String", "expected_string")
    \o OptionalCheck("TextInput", n.props, "label", "String", "expected_string")
    \o EnumCheck("TextInput", n.props, "keyboard", KeyboardTypes)
    \o OptionalCheck("TextInput", n.props, "max_length", "Number", "expected_number")
    \o OptionalCheck("TextInput", n.props, "multiline", "Bool", "expected_bool")
    \o ChildrenCheck("TextInput", n)
    \o UnknownScan("TextInput", n.props, TextInputKnown)

\* validate_interactive_node
validate_interactive_node(n) ==
    CASE n.component_type = "Button" -> validate_button(n)
      [] n.component_type = "TextInput" -> validate_text_input(n)
      [] OTHER -> <<Err("unknown_component", "interactive", "", n.component_type)>>

-----------------------------------------------------------------------------
(* components/list.rs: validate_list_node *)

\* The keys validate_scroll_list's unknown-prop scan lets pass.
ScrollListKnown == {"items", "render", "key", "on_reorder", "dividers", "accessible"}

\* if let Some(prop) = node.props.get("accessible") { errors.extend(validate_accessible_prop) }
AccessibleCheck(comp, props) ==
    LET got == MapGet(props, "accessible")
    IN  IF got # None THEN validate_accessible_prop(comp, got[1]) ELSE <<>>

\* A validate_scroll_list that checks the accessible record with the optional props,
\* before the children.
validate_scroll_list_accessible_first(n) ==
    RequiredCheck("ScrollList", n.props, "items", "List", "expected_list")
    \o RequiredCheck("ScrollList", n.props, "render", "Lambda", "expected_lambda")
    \o RequiredCheck("ScrollList", n.props, "key", "Lambda", "expected_lambda")
    \o OptionalCheck("ScrollList", n.props, "on_reorder", "Lambda", "expected_lambda")
    \o OptionalCheck("ScrollList", n.props, "dividers", "Bool", "expected_bool")
    \o AccessibleCheck("ScrollList", n.props)
    \o ChildrenCheck("ScrollList", n)
    \o UnknownScan("ScrollList", n.props, ScrollListKnown)

\* validate_scroll_list
validate_scroll_list(n) ==
    RequiredCheck("ScrollList", n.props, "items", "List", "expected_list")
    \o RequiredCheck("ScrollList", n.props, "render", "Lambda", "expected_lambda")
    \o RequiredCheck("ScrollList", n.props, "key", "Lambda", "expected_lambda")
    \o OptionalCheck("ScrollList", n.props, "on_reorder", "Lambda", "expected_lambda")
    \o OptionalCheck("ScrollList", n.props, "dividers", "Bool", "expected_bool")
    \o ChildrenCheck("ScrollList", n)
    \o AccessibleCheck("ScrollList", n.props)
    \o UnknownScan("ScrollList", n.props, ScrollListKnown)

\* A validate_list_node that skips a component it does not handle.
validate_list_node_skipping(n) ==
    CASE n.component_type = "ScrollList" -> validate_scroll_list(n)
      [] OTHER -> <<>>

\* validate_list_node
validate_list_node(n) ==
    CASE n.component_type = "ScrollList" -> validate_scroll_list(n)
      [] OTHER -> <<Err("unknown_component", "list", "", n.component_type)>>

-----------------------------------------------------------------------------
(* components/feedback.rs: validate_feedback_node *)

ToastTypes == {"info", "success", "warning", "error"}

\* The keys validate_modal's unknown-prop scan lets pass.
ModalKnown == {"visible", "on_dismiss", "title"}

\* validate_modal
validate_modal(n) ==
    RequiredCheck("Modal", n.props, "visible", "Bool", "expected_bool")
    \o RequiredCheck("Modal", n.props, "on_dismiss", "ActionRef", "expected_action")
    \o OptionalCheck("Modal", n.props, "title", "String", "expected_string")
    \o UnknownScan("Modal", n.props, ModalKnown)

\* The keys validate_toast's unknown-prop scan lets pass.
ToastKnown == {"message", "duration", "type"}

\* validate_toast
validate_toast(n) ==
    RequiredCheck("Toast", n.props, "message", "String", "expected_string")
    \o OptionalCheck("Toast", n.props, "duration", "Number", "expected_number")
    \o EnumCheck("Toast", n.props, "type", ToastTypes)
    \o ChildrenCheck("Toast", n)
    \o UnknownScan("Toast", n.props, ToastKnown)

\* validate_feedback_node
validate_feedback_node(n) ==
    CASE n.component_type = "Modal" -> validate_modal(n)
      [] n.component_type = "Toast" -> validate_toast(n)
      [] OTHER -> <<Err("unknown_component", "feedback", "", n.component_type)>>

\* The category validator of each name.
Validators == {"layout", "content", "interactive", "list", "feedback"}

ValidateBy(category, n) ==
    CASE category = "layout" -> validate_layout_node(n)
      [] category = "content" -> validate_content_node(n)
      [] category = "interactive" -> validate_interactive_node(n)
      [] category = "list" -> validate_list_node(n)
      [] category = "feedback" -> validate_feedback_node(n)

-----------------------------------------------------------------------------
(* The enums the builders take, and their string forms *)

AlignmentEnum == {"Start", "Center", "End", "Stretch", "SpaceBetween", "SpaceAround"}

\* alignment_to_prop
alignment_to_prop(align) ==
    PString(CASE align = "Start" -> "start"
              [] align = "Center" -> "center"
              [] align = "End" -> "end"
              [] align = "Stretch" -> "stretch"
              [] align = "SpaceBetween" -> "space_between"
              [] align = "SpaceAround" -> "space_around")

ScrollDirectionEnum == {"Vertical", "Horizontal", "Both"}

\* ScrollDirection::as_str
ScrollDirection_as_str(d) ==
    CASE d = "Vertical" -> "vertical"
      [] d = "Horizontal" -> "horizontal"
      [] d = "Both" -> "both"

TextSizeEnum == {"Small", "Body", "Title", "Heading", "Display"}

\* TextSize::as_str
TextSize_as_str(x) ==
    CASE x = "Small" -> "small"
      [] x = "Body" -> "body"
      [] x = "Title" -> "title"
      [] x = "Heading" -> "heading"
      [] x = "Display" -> "display"

TextWeightEnum == {"Normal", "Medium", "Bold"}

\* TextWeight::as_str
TextWeight_as_str(x) ==
    CASE x = "Normal" -> "normal"
      [] x = "Medium" -> "medium"
      [] x = "Bold" -> "bold"

TextAlignEnum == {"Start", "Center", "End"}

\* TextAlign::as_str
TextAlign_as_str(x) ==
    CASE x = "Start" -> "start"
      [] x = "Center" -> "center"
      [] x = "End" -> "end"

TextOverflowEnum == {"Clip", "Ellipsis", "Wrap"}

\* TextOverflow::as_str
TextOverflow_as_str(x) ==
    CASE x = "Clip" -> "clip"
      [] x = "Ellipsis" -> "ellipsis"
      [] x = "Wrap" -> "wrap"

ButtonVariantEnum == {"Filled", "Outlined", "Text"}

\* ButtonVariant::as_str
ButtonVariant_as_str(x) ==
    CASE x = "Filled" -> "filled"
      [] x = "Outlined" -> "outlined"
      [] x = "Text" -> "text"

KeyboardTypeEnum == {"Text", "Number", "Email", "Phone", "Url"}

\* KeyboardType::as_str
KeyboardType_as_str(x) ==
    CASE x = "Text" -> "text"
      [] x = "Number" -> "number"
      [] x = "Email" -> "email"
      [] x = "Phone" -> "phone"
      [] x = "Url" -> "url"

ToastTypeEnum == {"Info", "Success", "Warning", "Error"}

\* ToastType::as_str
ToastType_as_str(x) ==
    CASE x = "Info" -> "info"
      [] x = "Success" -> "success"
      [] x = "Warning" -> "warning"
      [] x = "Error" -> "error"

\* types.rs: Edges
EdgesUniform(n) == [e |-> "Uniform", n |-> n]
EdgesSides(top, bottom, start, end) ==
    [e |-> "Sides", top |-> top, bottom |-> bottom, start |-> start, end |-> end]

\* types.rs: ColorValue
ColorValue(r, g, b, a) == [r |-> r, g |-> g, b |-> b, a |-> a]

\* PropValue::color(color.r, color.g, color.b, color.a)
color_prop(c) == PColor(c.r, c.g, c.b, c.a)

\* f64::clamp(0.0, 1.0): NaN stays NaN (no comparison with NaN holds).
Clamp01(v) == IF v = NaN THEN NaN ELSE IF v < 0 THEN 0 ELSE IF v > 1000 THEN 1000 ELSE v

-----------------------------------------------------------------------------
(* JSON documents: what serde_json writes and reads *)

JStr(x) == [j |-> "str", s |-> x]
\* A number written without fraction or exponent (an integer token).
JInt(i) == [j |-> "int", i |-> i]
\* A number written from an f64 (always with a fraction: 8.0), in thousandths.
JFloat(f) == [j |-> "float", f |-> f]
JBool(b) == [j |-> "bool", b |-> b]
JNull == [j |-> "null"]
JArr(items) == [j |-> "arr", items |-> items]
\* An object: its members <<key, value>> in the order they stand in the text.
JObj(members) == [j |-> "obj", members |-> members]

\* serde_json's serialize_f64: a float that is not finite is written as null.
SerF64(f) == IF f = NaN THEN JNull ELSE JFloat(f)

IsJNumber(x) == x.j \in {"int", "float"}

\* The f64 a JSON number deserializes to, in thousandths.
JNumberValue(x) == IF x.j = "int" THEN x.i * 1000 ELSE x.f

\* #[derive(Serialize)] #[serde(untagged)] enum PropValue
RECURSIVE SerPropValue(_)
SerPropValue(v) ==
    CASE v.t = "String" -> JStr(v.s)
      [] v.t = "Number" -> SerF64(v.n)
      [] v.t = "Bool" -> JBool(v.bool)
      [] v.t = "Nil" -> JNull
      [] v.t = "Color" ->
            JObj(<<<<"r", SerF64(v.r)>>, <<"g", SerF64(v.g)>>,
                   <<"b", SerF64(v.b)>>, <<"a", SerF64(v.a)>>>>)
      [] v.t = "ActionRef" ->
            JObj(<<<<"__action", JStr(v.action)>>>>
                 \o (IF v.args = None THEN <<>>
                     ELSE <<<<"__args",
                              JArr([i \in 1..Len(v.args[1]) |-> SerPropValue(v.args[1][i])])>>>>))
      [] v.t = "Lambda" -> JObj(<<<<"__lambda", JInt(v.lambda_id)>>>>)
      [] v.t = "List" -> JArr([i \in 1..Len(v.items) |-> SerPropValue(v.items[i])])
      [] v.t = "Record" ->
            JObj([i \in 1..Len(v.fields) |-> <<v.fields[i][1], SerPropValue(v.fields[i][2])>>])

\* #[derive(Serialize)] struct SurfaceNode: type, props, children, in declaration order.
RECURSIVE SerNode(_)
SerNode(n) ==
    JObj(<<<<"type", JStr(n.component_type)>>,
           <<"props", JObj([i \in 1..Len(n.props) |->
                               <<n.props[i][1], SerPropValue(n.props[i][2])>>])>>,
           <<"children", JArr([i \in 1..Len(n.children) |-> SerNode(n.children[i])])>>>>)

\* Surface::new
Surface(root) == [root |-> root]

\* Surface::to_json
to_json(surface) == JObj(<<<<"root", SerNode(surface.root)>>>>)

\* The untagged variant PropValue::Color read from a JSON value: a derived struct
\* visitor takes a map (members it does not know are skipped) or a sequence of
\* exactly its fields.
DeColor(x) ==
    IF x.j = "obj"
    THEN LET r == MapGet(x.members, "r")
             g == MapGet(x.members, "g")
             b == MapGet(x.members, "b")
             a == MapGet(x.members, "a")
         IN  IF /\ r # None /\ g # None /\ b # None /\ a # None
                /\ IsJNumber(r[1]) /\ IsJNumber(g[1]) /\ IsJNumber(b[1]) /\ IsJNumber(a[1])
             THEN Some(PColor(JNumberValue(r[1]), JNumberValue(g[1]),
                              JNumberValue(b[1]), JNumberValue(a[1])))
             ELSE None
    ELSE IF x.j = "arr"
    THEN IF Len(x.items) = 4 /\ \A i \in 1..4 : IsJNumber(x.items[i])
         THEN Some(PColor(JNumberValue(x.items[1]), JNumberValue(x.items[2]),
                          JNumberValue(x.items[3]), JNumberValue(x.items[4])))
         ELSE None
    ELSE None

\* lambda_id: u32 takes a non-negative integer token (the integers of the model are all
\* below 2^31, so none is above u32::MAX).
FitsU32(i) == i >= 0

\* The untagged variant PropValue::Lambda read from a JSON value.
DeLambda(x) ==
    IF x.j = "obj"
    THEN LET id == MapGet(x.members, "__lambda")
         IN  IF id # None /\ id[1].j = "int" /\ FitsU32(id[1].i)
             THEN Some(PLambda(id[1].i)) ELSE None
    ELSE IF x.j = "arr"
    THEN IF /\ Len(x.items) = 1 /\ x.items[1].j = "int"
            /\ FitsU32(x.items[1].i)
         THEN Some(PLambda(x.items[1].i)) ELSE None
    ELSE None

\* #[derive(Deserialize)] #[serde(untagged)] enum PropValue: the first variant, in
\* declaration order, that the value deserializes to.
RECURSIVE DePropValue(_)

\* Option<Vec<PropValue>> read from a JSON value: Some(option) or None (an error).
DeArgs(x) ==
    IF x.j = "null" THEN Some(None)
    ELSE IF x.j = "arr"
    THEN Some(Some([i \in 1..Len(x.items) |-> DePropValue(x.items[i])]))
    ELSE None

\* The untagged variant PropValue::ActionRef read from a JSON value.
DeActionRef(x) ==
    IF x.j = "obj"
    THEN LET name == MapGet(x.members, "__action")
             args == MapGet(x.members, "__args")
             opt == IF args = None THEN Some(None) ELSE DeArgs(args[1])
         IN  IF name # None /\ name[1].j = "str" /\ opt # None
             THEN Some(PActionRef(name[1].s, opt[1])) ELSE None
    ELSE IF x.j = "arr"
    THEN IF Len(x.items) = 2 /\ x.items[1].j = "str" /\ DeArgs(x.items[2]) # None
         THEN Some(PActionRef(x.items[1].s, DeArgs(x.items[2])[1])) ELSE None
    ELSE None

DePropValue(x) ==
    CASE x.j = "str" -> PString(x.s)
      [] IsJNumber(x) -> PNumber(JNumberValue(x))
      [] x.j = "bool" -> PBool(x.b)
      [] x.j = "null" -> PNil
      [] OTHER ->
            IF DeColor(x) # None THEN DeColor(x)[1]
            ELSE IF DeActionRef(x) # None THEN DeActionRef(x)[1]
            ELSE IF DeLambda(x) # None THEN DeLambda(x)[1]
            ELSE IF x.j = "arr"
            THEN PList([i \in 1..Len(x.items) |-> DePropValue(x.items[i])])
            ELSE PRecord(MapOf([i \in 1..Len(x.members) |->
                                   <<x.members[i][1], DePropValue(x.members[i][2])>>]))

\* #[derive(Deserialize)] struct SurfaceNode: Some(node) or None (an error).
RECURSIVE DeNode(_)
DeNode(x) ==
    IF x.j # "obj" THEN None
    ELSE LET ty == MapGet(x.members, "type")
             props == MapGet(x.members, "props")
             children == MapGet(x.members, "children")
         IN  IF /\ ty # None /\ props # None /\ children # None
                /\ ty[1].j = "str" /\ props[1].j = "obj" /\ children[1].j = "arr"
                /\ \A i \in 1..Len(children[1].items) : DeNode(children[1].items[i]) # None
             THEN Some([component_type |-> ty[1].s,
                        props |-> MapOf([i \in 1..Len(props[1].members) |->
                                            <<props[1].members[i][1],
                                              DePropValue(props[1].members[i][2])>>]),
                        children |-> [i \in 1..Len(children[1].items) |->
                                         DeNode(children[1].items[i])[1]]])
             ELSE None

\* serde_json::from_str::<Surface>: Some(surface) or None (an error).
from_json(x) ==
    IF x.j # "obj" THEN None
    ELSE LET root == MapGet(x.members, "root")
         IN  IF root # None /\ DeNode(root[1]) # None
             THEN Some(Surface(DeNode(root[1])[1])) ELSE None

\* An edges_to_prop that stores four equal sides as one number.
edges_to_prop_collapsing(edges) ==
    IF edges.e = "Uniform" THEN PNumber(edges.n)
    ELSE IF edges.top = edges.bottom /\ edges.top = edges.start /\ edges.top = edges.end
    THEN PNumber(edges.top)
    ELSE PRecord(MapOf(<<<<"top", PNumber(edges.top)>>, <<"bottom", PNumber(edges.bottom)>>,
                         <<"start", PNumber(edges.start)>>, <<"end", PNumber(edges.end)>>>>))

\* edges_to_prop: Sides go through serde_json::to_value and from_value::<PropValue>.
edges_to_prop(edges) ==
    IF edges.e = "Uniform" THEN PNumber(edges.n)
    ELSE DePropValue(JObj(<<<<"top", SerF64(edges.top)>>, <<"bottom", SerF64(edges.bottom)>>,
                            <<"start", SerF64(edges.start)>>, <<"end", SerF64(edges.end)>>>>))

-----------------------------------------------------------------------------
(* The builders: build() of each staging struct *)

NoBuilder == [kind |-> "none"]

\* ColumnBuilder::build and RowBuilder::build (the same body, on "Column" and on "Row")
BuildColumnRow(b) ==
    LET n0 == NewNode(b.kind)
        n1 == IF b.f.spacing # None THEN set_prop(n0, "spacing", PNumber(b.f.spacing[1])) ELSE n0
        n2 == IF b.f.align # None THEN set_prop(n1, "align", alignment_to_prop(b.f.align[1])) ELSE n1
        n3 == IF b.f.padding # None THEN set_prop(n2, "padding", edges_to_prop(b.f.padding[1])) ELSE n2
        n4 == [n3 EXCEPT !.children = b.children]
    IN  ensure_accessible(n4)

\* ScrollBuilder::build
BuildScroll(b) ==
    LET n0 == NewNode("Scroll")
        n1 == set_prop(n0, "direction", PString(ScrollDirection_as_str(b.f.direction)))
        n2 == [n1 EXCEPT !.children = b.children]
    IN  ensure_accessible(n2)

TextSizeProp(x) == PString(TextSize_as_str(x))
TextWeightProp(x) == PString(TextWeight_as_str(x))
TextAlignProp(x) == PString(TextAlign_as_str(x))
TextOverflowProp(x) == PString(TextOverflow_as_str(x))

\* TextBuilder::build
BuildText(b) ==
    LET n0 == NewNode("Text")
        n1 == set_prop(n0, "value", PString(b.f.value))
        n2 == IF b.f.size # None THEN set_prop(n1, "size", TextSizeProp(b.f.size[1])) ELSE n1
        n3 == IF b.f.weight # None THEN set_prop(n2, "weight", TextWeightProp(b.f.weight[1])) ELSE n2
        n4 == IF b.f.color # None THEN set_prop(n3, "color", color_prop(b.f.color[1])) ELSE n3
        n5 == IF b.f.align # None THEN set_prop(n4, "align", TextAlignProp(b.f.align[1])) ELSE n4
        n6 == IF b.f.max_lines # None THEN set_prop(n5, "max_lines", PNumber(b.f.max_lines[1])) ELSE n5
        n7 == IF b.f.overflow # None THEN set_prop(n6, "overflow", TextOverflowProp(b.f.overflow[1])) ELSE n6
    IN  n7

\* ProgressBarBuilder::build
BuildProgressBar(b) ==
    LET n0 == NewNode("ProgressBar")
        n1 == set_prop(n0, "value", PNumber(b.f.value))
        n2 == IF b.f.color # None THEN set_prop(n1, "color", color_prop(b.f.color[1])) ELSE n1
        n3 == IF b.f.background # None THEN set_prop(n2, "background", color_prop(b.f.background[1])) ELSE n2
        n4 == IF b.f.height # None THEN set_prop(n3, "height", PNumber(b.f.height[1])) ELSE n3
    IN  n4

ButtonVariantProp(x) == PString(ButtonVariant_as_str(x))

\* ButtonBuilder::build
BuildButton(b) ==
    LET n0 == NewNode("Button")
        n1 == set_prop(n0, "label", PString(b.f.label))
        n2 == set_prop(n1, "on_tap", b.f.on_tap)
        n3 == IF b.f.variant # None THEN set_prop(n2, "variant", ButtonVariantProp(b.f.variant[1])) ELSE n2
        n4 == IF b.f.icon # None THEN set_prop(n3, "icon", PString(b.f.icon[1])) ELSE n3
        n5 == IF b.f.disabled # None THEN set_prop(n4, "disabled", PBool(b.f.disabled[1])) ELSE n4
        n6 == IF b.f.loading # None THEN set_prop(n5, "loading", PBool(b.f.loading[1])) ELSE n5
    IN  n6

KeyboardTypeProp(x) == PString(KeyboardType_as_str(x))

\* TextInputBuilder::build
BuildTextInput(b) ==
    LET n0 == NewNode("TextInput")
        n1 == set_prop(n0, "value", PString(b.f.value))
        n2 == set_prop(n1, "on_change", b.f.on_change)
        n3 == IF b.f.placeholder # None THEN set_prop(n2, "placeholder", PString(b.f.placeholder[1])) ELSE n2
        n4 == IF b.f.label # None THEN set_prop(n3, "label", PString(b.f.label[1])) ELSE n3
        n5 == IF b.f.keyboard # None THEN set_prop(n4, "keyboard", KeyboardTypeProp(b.f.keyboard[1])) ELSE n4
        n6 == IF b.f.max_length # None THEN set_prop(n5, "max_length", PNumber(b.f.max_length[1])) ELSE n5
        n7 == IF b.f.multiline # None THEN set_prop(n6, "multiline", PBool(b.f.multiline[1])) ELSE n6
    IN  n7

\* ScrollListBuilder::build
BuildScrollList(b) ==
    LET n0 == NewNode("ScrollList")
        n1 == set_prop(n0, "items", b.f.items)
        n2 == set_prop(n1, "render", b.f.render)
        n3 == set_prop(n2, "key", b.f.key)
        n4 == IF b.f.on_reorder # None THEN set_prop(n3, "on_reorder", b.f.on_reorder[1]) ELSE n3
        n5 == IF b.f.dividers # None THEN set_prop(n4, "dividers", PBool(b.f.dividers[1])) ELSE n4
    IN  ensure_accessible(n5)

\* for child in self.children { node.add_child(child) }
RECURSIVE AddChildren(_, _)
AddChildren(n, cs) == IF cs = <<>> THEN n ELSE AddChildren(add_child(n, Head(cs)), Tail(cs))

\* ModalBuilder::build
BuildModal(b) ==
    LET n0 == NewNode("Modal")
        n1 == set_prop(n0, "visible", PBool(b.f.visible))
        n2 == set_prop(n1, "on_dismiss", b.f.on_dismiss)
        n3 == IF b.f.title # None THEN set_prop(n2, "title", PString(b.f.title[1])) ELSE n2
    IN  AddChildren(n3, b.children)

ToastTypeProp(x) == PString(ToastType_as_str(x))

\* A ToastBuilder::build that names the prop after the setter.
BuildToastSetterKey(b) ==
    LET n0 == NewNode("Toast")
        n1 == set_prop(n0, "message", PString(b.f.message))
        n2 == IF b.f.duration # None THEN set_prop(n1, "duration", PNumber(b.f.duration[1])) ELSE n1
        n3 == IF b.f.toast_type # None THEN set_prop(n2, "toast_type", ToastTypeProp(b.f.toast_type[1])) ELSE n2
    IN  n3

\* ToastBuilder::build
BuildToast(b) ==
    LET n0 == NewNode("Toast")
        n1 == set_prop(n0, "message", PString(b.f.message))
        n2 == IF b.f.duration # None THEN set_prop(n1, "duration", PNumber(b.f.duration[1])) ELSE n1
        n3 == IF b.f.toast_type # None THEN set_prop(n2, "type", ToastTypeProp(b.f.toast_type[1])) ELSE n2
    IN  n3

\* build() of the builder in hand.
BuildOf(b) ==
    CASE b.kind \in {"Column", "Row"} -> BuildColumnRow(b)
      [] b.kind = "Scroll" -> BuildScroll(b)
      [] b.kind = "Text" -> BuildText(b)
      [] b.kind = "ProgressBar" -> BuildProgressBar(b)
      [] b.kind = "Button" -> BuildButton(b)
      [] b.kind = "TextInput" -> BuildTextInput(b)
      [] b.kind = "ScrollList" -> BuildScrollList(b)
      [] b.kind = "Modal" -> BuildModal(b)
      [] b.kind = "Toast" -> BuildToast(b)

-----------------------------------------------------------------------------
(* registry.rs: the ten component schemas *)

Required == "Required"
Optional == "Optional"

\* PropDef
PropDef(name, requirement, prop_type) ==
    [name |-> name, requirement |-> requirement, prop_type |-> prop_type]

\* PropType: the variants without data, and StringEnum with its allowed values.
Ty(name) == [ty |-> name, values |-> {}]
StringEnum(values) == [ty |-> "StringEnum", values |-> values]

AccessibleDef == PropDef("accessible", Optional, Ty("Record"))

\* ColumnDef and RowDef (the same props)
ColumnRowProps ==
    <<PropDef("spacing", Optional, Ty("Number")),
      PropDef("align", Optional, Ty("Alignment")),
      PropDef("padding", Optional, Ty("Edges")),
      AccessibleDef>>

\* ScrollDef
ScrollProps ==
    <<PropDef("direction", Optional, StringEnum({"vertical", "horizontal", "both"})),
      AccessibleDef>>

\* TextDef
TextProps ==
    <<PropDef("value", Required, Ty("String")),
      PropDef("size", Optional, StringEnum({"small", "body", "title", "heading", "display"})),
      PropDef("weight", Optional, StringEnum({"normal", "medium", "bold"})),
      PropDef("color", Optional, Ty("Color")),
      PropDef("align", Optional, StringEnum({"start", "center", "end"})),
      PropDef("max_lines", Optional, Ty("Number")),
      PropDef("overflow", Optional, StringEnum({"clip", "ellipsis", "wrap"})),
      AccessibleDef>>

\* ProgressBarDef
ProgressBarProps ==
    <<PropDef("value", Required, Ty("Number")),
      PropDef("color", Optional, Ty("Color")),
      PropDef("background", Optional, Ty("Color")),
      PropDef("height", Optional, Ty("Number")),
      AccessibleDef>>

\* ButtonDef
ButtonProps ==
    <<PropDef("label", Required, Ty("String")),
      PropDef("on_tap", Required, Ty("Action")),
      PropDef("variant", Optional, StringEnum({"filled", "outlined", "text"})),
      PropDef("icon", Optional, Ty("String")),
      PropDef("disabled", Optional, Ty("Bool")),
      PropDef("loading", Optional, Ty("Bool")),
      AccessibleDef>>

\* TextInputDef
TextInputProps ==
    <<PropDef("value", Required, Ty("String")),
      PropDef("on_change", Required, Ty("Lambda")),
      PropDef("placeholder", Optional, Ty("String")),
      PropDef("label", Optional, Ty("String")),
      PropDef("keyboard", Optional, StringEnum({"text", "number", "email", "phone", "url"})),
      PropDef("max_length", Optional, Ty("Number")),
      PropDef("multiline", Optional, Ty("Bool")),
      AccessibleDef>>

\* ScrollListDef
ScrollListProps ==
    <<PropDef("items", Required, Ty("List")),
      PropDef("render", Required, Ty("Lambda")),
      PropDef("key", Required, Ty("Lambda")),
      PropDef("on_reorder", Optional, Ty("Lambda")),
      PropDef("dividers", Optional, Ty("Bool")),
      AccessibleDef>>

\* ModalDef
ModalProps ==
    <<PropDef("visible", Required, Ty("Bool")),
      PropDef("on_dismiss", Required, Ty("Action")),
      PropDef("title", Optional, Ty("String")),
      AccessibleDef>>

\* ToastDef
ToastProps ==
    <<PropDef("message", Required, Ty("String")),
      PropDef("duration", Optional, Ty("Number")),
      PropDef("type", Optional, StringEnum({"info", "success", "warning", "error"})),
      AccessibleDef>>

ComponentDef(name, accepts_children, props) ==
    [name |-> name, accepts_children |-> accepts_children, props |-> props]

\* The ten names ComponentRegistry::new registers.
ComponentTypes ==
    {"Column", "Row", "Scroll", "Text", "ProgressBar", "Button", "TextInput",
     "ScrollList", "Modal", "Toast"}

\* The ten definitions are unit structs: a definition is told by the name of its struct.
\* impl ComponentDef for <struct>: name()
ComponentDef_name(def) ==
    CASE def = "ColumnDef" -> "Column"
      [] def = "RowDef" -> "Row"
      [] def = "ScrollDef" -> "Scroll"
      [] def = "TextDef" -> "Text"
      [] def = "ProgressBarDef" -> "ProgressBar"
      [] def = "ButtonDef" -> "Button"
      [] def = "TextInputDef" -> "TextInput"
      [] def = "ScrollListDef" -> "ScrollList"
      [] def = "ModalDef" -> "Modal"
      [] def = "ToastDef" -> "Toast"

\* impl ComponentDef for <struct>: accepts_children()
ComponentDef_accepts_children(def) == def \in {"ColumnDef", "RowDef", "ScrollDef", "ModalDef"}

\* impl ComponentDef for <struct>: props()
ComponentDef_props(def) ==
    CASE def \in {"ColumnDef", "RowDef"} -> ColumnRowProps
      [] def = "ScrollDef" -> ScrollProps
      [] def = "TextDef" -> TextProps
      [] def = "ProgressBarDef" -> ProgressBarProps
      [] def = "ButtonDef" -> ButtonProps
      [] def = "TextInputDef" -> TextInputProps
      [] def = "ScrollListDef" -> ScrollListProps
      [] def = "ModalDef" -> ModalProps
      [] def = "ToastDef" -> ToastProps

\* The inserts ComponentRegistry::new makes, in the order the code makes them.
RegistryInserts ==
    <<<<"Column", "ColumnDef">>, <<"Row", "RowDef">>, <<"Scroll", "ScrollDef">>,
      <<"Text", "TextDef">>, <<"ProgressBar", "ProgressBarDef">>,
      <<"Button", "ButtonDef">>, <<"TextInput", "TextInputDef">>,
      <<"ScrollList", "ScrollListDef">>,
      <<"Modal", "ModalDef">>, <<"Toast", "ToastDef">>>>

\* A registry that keeps its components in the order they were registered.
ComponentRegistry_in_insert_order == RegistryInserts

\* ComponentRegistry::new: the components BTreeMap after the ten inserts.
ComponentRegistry_new == MapOf(RegistryInserts)

\* ComponentRegistry::get: Some(definition) or None.
get(components, name) == MapGet(components, name)

\* An is_valid that takes any name that is not empty.
is_valid_nonempty(components, name) == name # ""

\* ComponentRegistry::is_valid
is_valid(components, name) == HasKey(components, name)

\* ComponentRegistry::component_names: the keys in iteration order.
component_names(components) == MapKeys(components)

\* ComponentRegistry::get on a registry made by ComponentRegistry::new, with what the
\* definition found answers: Some(its name, accepts_children and props) or None.
registry_get(name) ==
    LET def == get(ComponentRegistry_new, name)
    IN  IF def = None THEN None
        ELSE Some(ComponentDef(ComponentDef_name(def[1]), ComponentDef_accepts_children(def[1]),
                               ComponentDef_props(def[1])))

\* The props of a component's schema; none for a name the registry does not know.
SchemaProps(name) == IF registry_get(name) = None THEN <<>> ELSE registry_get(name)[1].props

-----------------------------------------------------------------------------
(* The arguments the host passes: small sets of each argument type *)

StringArgs == {"Hi", "Save"}
\* f64 arguments, in thousandths.
NumberArgs == {8000, 16000}
\* ProgressBarBuilder::new is given values below, inside and above 0.0..=1.0, the two
\* ends, and NaN.
ProgressArgs == {0 - 500, 0 - 1, 0, 755, 1000, 1001, 1500, NaN}
BoolArgs == {TRUE, FALSE}
ColorArgs == {ColorValue(1000, 0, 0, 1000)}
EdgesArgs ==
    {EdgesUniform(16000), EdgesSides(1000, 2000, 3000, 4000),
     EdgesSides(8000, 8000, 8000, 8000)}
\* The documented variant of an action argument, and of a lambda argument.
ActionArgs ==
    {action("go"), action_with_args("add", <<PNumber(1000)>>), action_with_args("clear", <<>>)}
LambdaArgs == {lambda(1), lambda(2)}
\* Lists for ScrollList items; the last holds a record with the keys a, b, g, r.
ItemsArgs ==
    {PList(<<>>),
     PList(<<PString("a")>>),
     PList(<<PRecord(MapOf(<<<<"r", PNumber(1000)>>, <<"g", PNumber(0)>>,
                             <<"b", PNumber(0)>>, <<"a", PNumber(1000)>>>>))>>)}
\* A PropValue parameter takes any variant: the documented ones and Nil.
AnyOf(documented) == documented \cup {PNil}

\* Child nodes handed to child(), children() and add_child().
LeafA == set_prop(NewNode("Text"), "value", PString("a"))
LeafB == NewNode("Row")
ChildArgs == {LeafA, LeafB}
ChildrenArgs == {v \in {<<>>, <<LeafB>>, <<LeafB, LeafA>>} : Len(v) <= MaxChildren}
\* A child that is itself invalid: a Text without its required value.
BadLeaf == NewNode("Text")

-----------------------------------------------------------------------------
(* Builders: new, the setters, child/children, build *)

Builder(kind, f) == [kind |-> kind, f |-> f, children |-> <<>>, calls |-> 0]

Idle == builder = NoBuilder /\ node = NoNode

\* ColumnBuilder::new
NewColumn ==
    /\ Idle
    /\ builder' = Builder("Column", [spacing |-> None, align |-> None, padding |-> None])
    /\ UNCHANGED <<node, result, registry>>

\* RowBuilder::new
NewRow ==
    /\ Idle
    /\ builder' = Builder("Row", [spacing |-> None, align |-> None, padding |-> None])
    /\ UNCHANGED <<node, result, registry>>

\* ScrollBuilder::new
NewScroll ==
    /\ Idle
    /\ builder' = Builder("Scroll", [direction |-> "Vertical"])
    /\ UNCHANGED <<node, result, registry>>

\* TextBuilder::new
NewText ==
    /\ Idle
    /\ \E value \in StringArgs :
          builder' = Builder("Text", [value |-> value, size |-> None, weight |-> None,
                                      color |-> None, align |-> None, max_lines |-> None,
                                      overflow |-> None])
    /\ UNCHANGED <<node, result, registry>>

\* ProgressBarBuilder::new: the staging struct it returns.
ProgressBarBuilder_new(value) ==
    Builder("ProgressBar", [value |-> Clamp01(value), color |-> None,
                            background |-> None, height |-> None])

\* ProgressBarBuilder::new
NewProgressBar ==
    /\ Idle
    /\ \E value \in ProgressArgs : builder' = ProgressBarBuilder_new(value)
    /\ UNCHANGED <<node, result, registry>>

\* ButtonBuilder::new
NewButton ==
    /\ Idle
    /\ \E label \in StringArgs, on_tap \in AnyOf(ActionArgs) :
          builder' = Builder("Button", [label |-> label, on_tap |-> on_tap, variant |-> None,
                                        icon |-> None, disabled |-> None, loading |-> None])
    /\ UNCHANGED <<node, result, registry>>

\* TextInputBuilder::new
NewTextInput ==
    /\ Idle
    /\ \E value \in StringArgs, on_change \in AnyOf(LambdaArgs) :
          builder' = Builder("TextInput", [value |-> value, on_change |-> on_change,
                                           placeholder |-> None, label |-> None,
                                           keyboard |-> None, max_length |-> None,
                                           multiline |-> None])
    /\ UNCHANGED <<node, result, registry>>

\* ScrollListBuilder::new
NewScrollList ==
    /\ Idle
    /\ \E items \in AnyOf(ItemsArgs), render \in AnyOf({lambda(1)}), key \in AnyOf({lambda(2)}) :
          builder' = Builder("ScrollList", [items |-> items, render |-> render, key |-> key,
                                            on_reorder |-> None, dividers |-> None])
    /\ UNCHANGED <<node, result, registry>>

\* ModalBuilder::new
NewModal ==
    /\ Idle
    /\ \E visible \in BoolArgs, on_dismiss \in AnyOf(ActionArgs) :
          builder' = Builder("Modal", [visible |-> visible, on_dismiss |-> on_dismiss,
                                       title |-> None])
    /\ UNCHANGED <<node, result, registry>>

\* ToastBuilder::new
NewToast ==
    /\ Idle
    /\ \E message \in StringArgs :
          builder' = Builder("Toast", [message |-> message, duration |-> None,
                                       toast_type |-> None])
    /\ UNCHANGED <<node, result, registry>>

Field(name, args) == {<<name, a>> : a \in args}

\* The setters of each builder that store Some(argument): <<field, argument>>.
SetterArgs(kind) ==
    CASE kind \in {"Column", "Row"} ->
            Field("spacing", NumberArgs) \cup Field("align", AlignmentEnum)
                \cup Field("padding", EdgesArgs)
      [] kind = "Text" ->
            Field("size", TextSizeEnum) \cup Field("weight", TextWeightEnum)
                \cup Field("color", ColorArgs) \cup Field("align", TextAlignEnum)
                \cup Field("max_lines", NumberArgs) \cup Field("overflow", TextOverflowEnum)
      [] kind = "ProgressBar" ->
            Field("color", ColorArgs) \cup Field("background", ColorArgs)
                \cup Field("height", NumberArgs)
      [] kind = "Button" ->
            Field("variant", ButtonVariantEnum) \cup Field("icon", StringArgs)
                \cup Field("disabled", BoolArgs) \cup Field("loading", BoolArgs)
      [] kind = "TextInput" ->
            Field("placeholder", StringArgs) \cup Field("label", StringArgs)
                \cup Field("keyboard", KeyboardTypeEnum) \cup Field("max_length", NumberArgs)
                \cup Field("multiline", BoolArgs)
      [] kind = "ScrollList" ->
            Field("on_reorder", AnyOf(LambdaArgs)) \cup Field("dividers", BoolArgs)
      [] kind = "Modal" -> Field("title", StringArgs)
      [] kind = "Toast" ->
            Field("duration", NumberArgs) \cup Field("toast_type", ToastTypeEnum)
      [] OTHER -> {}

\* A setter that keeps the argument of its first call.
setter_keeping_first(b, name, arg) ==
    IF b.f[name] # None THEN [b EXCEPT !.calls = @ + 1]
    ELSE [b EXCEPT !.f[name] = Some(arg), !.calls = @ + 1]

\* A setter: self.<field> = Some(<argument>); calls counts the setter calls made.
setter(b, name, arg) == [b EXCEPT !.f[name] = Some(arg), !.calls = @ + 1]

\* builder.<field>(<argument>)
Setter ==
    /\ builder # NoBuilder
    /\ builder.calls < MaxSetters
    /\ \E fa \in SetterArgs(builder.kind) :
          /\ builder' = setter(builder, fa[1], fa[2])
          /\ result' = [op |-> "setter", name |-> fa[1], arg |-> fa[2]]
    /\ UNCHANGED <<node, registry>>

\* ScrollBuilder::direction: self.direction = direction
Direction ==
    /\ builder # NoBuilder
    /\ builder.kind = "Scroll"
    /\ builder.calls < MaxSetters
    /\ \E direction \in ScrollDirectionEnum :
          builder' = [builder EXCEPT !.f.direction = direction, !.calls = @ + 1]
    /\ UNCHANGED <<node, result, registry>>

\* A child that puts the new child before the others.
child_prepending(b, c) == [b EXCEPT !.children = <<c>> \o @]

\* ColumnBuilder, RowBuilder, ScrollBuilder, ModalBuilder ::child:
\* self.children.push(child)
child(b, c) == [b EXCEPT !.children = Append(@, c)]

\* ColumnBuilder, RowBuilder, ScrollBuilder ::children: self.children = children
children(b, v) == [b EXCEPT !.children = v]

\* builder.child(c)
Child ==
    /\ builder # NoBuilder
    /\ builder.kind \in {"Column", "Row", "Scroll", "Modal"}
    /\ Len(builder.children) < MaxChildren
    /\ \E c \in ChildArgs :
          /\ builder' = child(builder, c)
          /\ result' = [op |-> "child", child |-> c]
    /\ UNCHANGED <<node, registry>>

\* builder.children(v); ModalBuilder has no such method
Children ==
    /\ builder # NoBuilder
    /\ builder.kind \in {"Column", "Row", "Scroll"}
    /\ \E v \in ChildrenArgs :
          /\ builder' = children(builder, v)
          /\ result' = [op |-> "children", children |-> v]
    /\ UNCHANGED <<node, registry>>

\* build(self): the builder is consumed and the node is in hand.
Build ==
    /\ builder # NoBuilder
    /\ node' = BuildOf(builder)
    /\ builder' = NoBuilder
    /\ result' = [op |-> "build"]
    /\ UNCHANGED registry

-----------------------------------------------------------------------------
(* Nodes made by hand: SurfaceNode::new, set_prop, add_child, ensure_accessible *)

\* A component type no validator and no schema knows.
UnknownType == "FooBar"

\* A value of the variant a prop type asks for.
GoodValue(pt) ==
    CASE pt.ty = "String" -> PString("Hi")
      [] pt.ty = "Number" -> PNumber(8000)
      [] pt.ty = "Bool" -> PBool(TRUE)
      [] pt.ty = "Color" -> PColor(1000, 0, 0, 1000)
      [] pt.ty = "Action" -> action("go")
      [] pt.ty = "Lambda" -> lambda(1)
      [] pt.ty = "List" -> PList(<<>>)
      [] pt.ty = "Edges" -> PNumber(16000)
      [] pt.ty = "Alignment" -> PString("center")
      [] pt.ty = "StringEnum" -> PString(CHOOSE v \in pt.values : TRUE)
      [] OTHER -> PNil

\* A value of another variant; for an enum, a string outside the allowed values.
BadValue(pt) ==
    IF pt.ty \in {"StringEnum", "Alignment"} THEN PString("oops")
    ELSE IF pt.ty = "String" THEN PNumber(8000)
    ELSE PString("oops")

\* An explicit accessible record that differs from every default.
ExplicitAccessible ==
    to_prop_value([NewInfo("Close") EXCEPT !.role = Some("Link"), !.hint = Some("Closes")])

\* An accessible record with three defects: no label, an unknown role, an unknown field.
MalformedAccessible ==
    PRecord(MapOf(<<<<"role", PString("wizard")>>, <<"extra", PNil>>>>))

\* The values tried for one prop of a schema.
Candidates(def) ==
    IF def.name = "accessible"
    THEN {ExplicitAccessible, MalformedAccessible, PString("oops")}
    ELSE {GoodValue(def.prop_type), BadValue(def.prop_type)}

\* Keys no schema lists; "anything" sorts before most schema keys, "unknown" after most.
UnknownKeys == {"anything", "unknown"}

\* The <<key, value>> pairs tried on a node of a component type.
RawPairs(component_type) ==
    LET defs == SchemaProps(component_type)
    IN  UNION {{<<defs[i].name, v>> : v \in Candidates(defs[i])} : i \in 1..Len(defs)}
          \cup {<<k, PNil>> : k \in UnknownKeys}

\* SurfaceNode::new
NodeNew ==
    /\ Idle
    /\ \E component_type \in ComponentTypes \cup {UnknownType} :
          node' = NewNode(component_type)
    /\ result' = [op |-> "new"]
    /\ UNCHANGED <<builder, registry>>

\* SurfaceNode::set_prop
SetProp ==
    /\ node # NoNode
    /\ \E kv \in RawPairs(node.component_type) :
          /\ Len(node.props) < MaxProps \/ HasKey(node.props, kv[1])
          /\ node' = set_prop(node, kv[1], kv[2])
          /\ result' = [op |-> "set_prop", key |-> kv[1]]
    /\ UNCHANGED <<builder, registry>>

\* SurfaceNode::add_child
AddChild ==
    /\ node # NoNode
    /\ Len(node.children) < MaxChildren
    /\ node' = add_child(node, BadLeaf)
    /\ result' = [op |-> "add_child"]
    /\ UNCHANGED <<builder, registry>>

\* ensure_accessible(&mut node)
EnsureAccessible ==
    /\ node # NoNode
    /\ node' = IF ensure_accessible_panics(node) THEN node ELSE ensure_accessible(node)
    /\ result' = [op |-> "ensure_accessible", before |-> node,
                  panicked |-> ensure_accessible_panics(node)]
    /\ UNCHANGED <<builder, registry>>

-----------------------------------------------------------------------------
(* What the host does with the node in hand *)

\* validate_<category>_node(&node)
Validate ==
    /\ node # NoNode
    /\ \E category \in Validators :
          result' = [op |-> "validate", category |-> category,
                     errors |-> ValidateBy(category, node)]
    /\ UNCHANGED <<builder, node, registry>>

\* Surface::new(node).to_json()
ToJson ==
    /\ node # NoNode
    /\ result' = [op |-> "to_json", json |-> to_json(Surface(node))]
    /\ UNCHANGED <<builder, node, registry>>

\* serde_json::from_value::<Surface>(json) on the document to_json returned
FromJson ==
    /\ result.op = "to_json"
    /\ result' = [op |-> "from_json", json |-> result.json, surface |-> from_json(result.json)]
    /\ UNCHANGED <<builder, node, registry>>

\* The node is dropped.
Drop ==
    /\ node # NoNode
    /\ node' = NoNode
    /\ result' = [op |-> "none"]
    /\ UNCHANGED <<builder, registry>>

Init ==
    /\ builder = NoBuilder
    /\ node = NoNode
    /\ result = [op |-> "none"]
    /\ registry = ComponentRegistry_new

\* Nodes made by the builders.
Next ==
    \/ NewColumn \/ NewRow \/ NewScroll
    \/ NewText \/ NewProgressBar
    \/ NewButton \/ NewTextInput
    \/ NewScrollList
    \/ NewModal \/ NewToast
    \/ Setter \/ Direction \/ Child \/ Children
    \/ Build
    \/ Validate \/ ToJson \/ FromJson
    \/ Drop

Spec == Init /\ [][Next]_vars

\* Nodes made by hand.
NextRaw ==
    \/ NodeNew \/ SetProp \/ AddChild \/ EnsureAccessible
    \/ Validate \/ ToJson \/ FromJson
    \/ Drop

SpecRaw == Init /\ [][NextRaw]_vars

-----------------------------------------------------------------------------
(* The library's free functions and the registry, called directly *)

\* No call is in progress and the result of the last one has been taken.
Ready == Idle /\ result.op = "none"

\* c repeated n times.
RECURSIVE Repeat(_, _)
Repeat(c, n) ==
    IF n = 0 THEN ""
    ELSE IF n % 2 = 0 THEN LET half == Repeat(c, n \div 2) IN half \o half
    ELSE c \o Repeat(c, n - 1)

\* Names that are no component type: empty, differing in case or spacing, unknown.
OtherNames == {"", "button", "BUTTON", "column", "Scroll List", "Texts", UnknownType}

\* The props auto_label reads, and what each may hold: nothing, a string that tells
\* the prop, or a value that is no string.
LabelKeys == <<"label", "placeholder", "value", "title", "message">>

LabelString(key) == PString("the " \o key)

LabelChoices == [1..Len(LabelKeys) -> {"absent", "string", "other"}]

LabelProps(choice) ==
    LET present == SelectSeq([i \in 1..Len(LabelKeys) |-> i], LAMBDA i : choice[i] # "absent")
    IN  MapOf([j \in 1..Len(present) |->
                  <<LabelKeys[present[j]],
                    IF choice[present[j]] = "string" THEN LabelString(LabelKeys[present[j]])
                    ELSE PNumber(755)>>])

\* Text values around the limit of 100: ASCII of 100, 101 and 200 chars; chars of two
\* and three bytes below and above 100 chars and 100 bytes.
TextValues ==
    {"Hi", Repeat("a", 100), Repeat("a", 101), Repeat("a", 200),
     Repeat("^", 50), Repeat("^", 60), Repeat("^", 100), Repeat("^", 101),
     Repeat("@", 33), Repeat("@", 34), "a" \o Repeat("^", 50)}

ValueProps(value) == MapOf(<<<<"value", PString(value)>>>>)

\* Numbers for a value prop, in thousandths: below 0 and above 1, halves of a percent
\* on both sides of 0, values just below and above a half, and NaN.
ProgressValues ==
    {0 - 500, 0 - 15, 0 - 5, 0 - 4, 0, 4, 5, 14, 15, 754, 755, 758, 999, 1000, 1004, 1500, NaN}

NumberProps(value) == MapOf(<<<<"value", PNumber(value)>>>>)

\* auto_accessible(component_type, &props); info is None where the call panicked.
AutoAccessible ==
    /\ Ready
    /\ \E component_type \in ComponentTypes \cup OtherNames,
          props \in {LabelProps(c) : c \in LabelChoices} \cup {ValueProps(v) : v \in TextValues}
                    \cup {NumberProps(v) : v \in ProgressValues} :
          result' = [op |-> "auto_accessible", component_type |-> component_type,
                     props |-> props,
                     info |-> IF auto_label_panics(component_type, props) THEN None
                              ELSE Some(auto_accessible(component_type, props))]
    /\ UNCHANGED <<builder, node, registry>>

\* default_role(component_type)
DefaultRole ==
    /\ Ready
    /\ \E component_type \in ComponentTypes \cup OtherNames :
          result' = [op |-> "default_role", component_type |-> component_type,
                     role |-> default_role(component_type)]
    /\ UNCHANGED <<builder, node, registry>>

\* What each field of an accessible record may hold; Absent leaves the field out.
Absent == [t |-> "Absent"]

AccessibleFieldArgs(f) ==
    CASE f = "label" -> {Absent, PString("Close"), PNumber(1000)}
      [] f = "hint" -> {Absent, PString("Closes"), PNil}
      [] f = "role" -> {Absent, PString("link"), PString("wizard"), PString("Link"), PBool(TRUE)}
      [] f = "value" -> {Absent, PString("50%"), PNumber(500)}
      [] f = "live_region" ->
            {Absent, PString("polite"), PString("assertive"), PString("off"), PNil}

\* Fields validate_accessible_prop does not know.
ExtraFieldArgs == {<<>>, <<"extra">>, <<"extra", "labels">>}

AccessibleFieldSeq == <<"label", "hint", "role", "value", "live_region">>

AccessibleRecord(choice, extra) ==
    LET present == SelectSeq([i \in 1..5 |-> i], LAMBDA i : choice[i] # Absent)
    IN  PRecord(MapOf([j \in 1..Len(present) |->
                          <<AccessibleFieldSeq[present[j]], choice[present[j]]>>]
                      \o [j \in 1..Len(extra) |-> <<extra[j], PNil>>]))

\* The values handed to validate_accessible_prop: every variant but Record, and records.
AccessibleArgs ==
    {PString("oops"), PNumber(8000), PBool(TRUE), PNil, PColor(1000, 0, 0, 1000),
     action("go"), lambda(1), PList(<<>>)}
    \cup {AccessibleRecord(<<l, h, r, v, lr>>, extra) :
             l \in AccessibleFieldArgs("label"), h \in AccessibleFieldArgs("hint"),
             r \in AccessibleFieldArgs("role"), v \in AccessibleFieldArgs("value"),
             lr \in AccessibleFieldArgs("live_region"), extra \in ExtraFieldArgs}

\* validate_accessible_prop(component_name, &prop)
ValidateAccessibleProp ==
    /\ Ready
    /\ \E component_name \in {"Button", UnknownType}, prop \in AccessibleArgs :
          result' = [op |-> "validate_accessible_prop", component_name |-> component_name,
                     prop |-> prop,
                     errors |-> validate_accessible_prop(component_name, prop)]
    /\ UNCHANGED <<builder, node, registry>>

\* AccessibilityInfo values: the same strings under different fields, empty strings,
\* every role and both live regions.
OptionOf(S) == {None} \cup {Some(x) : x \in S}

Infos ==
    {InfoOf(label, hint, role, value, live_region) :
        label \in {"", "Close"}, hint \in OptionOf({"", "Close"}),
        role \in OptionOf(SemanticRoles), value \in OptionOf({"", "Close"}),
        live_region \in OptionOf({"Polite", "Assertive"})}

\* info.to_prop_value()
ToPropValue ==
    /\ Ready
    /\ \E info \in Infos :
          result' = [op |-> "to_prop_value", info |-> info, record |-> to_prop_value(info)]
    /\ UNCHANGED <<builder, node, registry>>

\* Strings handed to SemanticRole::parse: the valid values, the same in other letter
\* case, the names of the variants, near misses and the empty string.
RoleArgs ==
    {valid_values[i] : i \in 1..Len(valid_values)} \cup SemanticRoles
    \cup {"", "BUTTON", "TEXTFIELD", "textField", "text_field", "progress bar", "NONE",
          "buttons", " button", "butto", "wizard", "role"}

\* role.as_str()
RoleAsStr ==
    /\ Ready
    /\ \E role \in SemanticRoles :
          result' = [op |-> "as_str", role |-> role, str |-> role_as_str(role)]
    /\ UNCHANGED <<builder, node, registry>>

\* SemanticRole::parse(s)
RoleParse ==
    /\ Ready
    /\ \E s \in RoleArgs : result' = [op |-> "parse", s |-> s, role |-> role_parse(s)]
    /\ UNCHANGED <<builder, node, registry>>

\* SemanticRole::valid_values()
RoleValidValues ==
    /\ Ready
    /\ result' = [op |-> "valid_values", values |-> valid_values]
    /\ UNCHANGED <<builder, node, registry>>

\* ComponentRegistry::new (and Default::default)
RegistryNew ==
    /\ Ready
    /\ registry' = ComponentRegistry_new
    /\ result' = [op |-> "registry_new"]
    /\ UNCHANGED <<builder, node>>

\* registry.get(name)
RegistryGet ==
    /\ Ready
    /\ \E name \in ComponentTypes \cup OtherNames :
          result' = [op |-> "get", name |-> name, def |-> get(registry, name)]
    /\ UNCHANGED <<builder, node, registry>>

\* registry.is_valid(name)
RegistryIsValid ==
    /\ Ready
    /\ \E name \in ComponentTypes \cup OtherNames :
          result' = [op |-> "is_valid", name |-> name, valid |-> is_valid(registry, name)]
    /\ UNCHANGED <<builder, node, registry>>

\* registry.component_names()
RegistryComponentNames ==
    /\ Ready
    /\ result' = [op |-> "component_names", names |-> component_names(registry)]
    /\ UNCHANGED <<builder, node, registry>>

\* ProgressBarBuilder::new(value).build()
ProgressBarOf ==
    /\ Ready
    /\ \E value \in ProgressArgs :
          result' = [op |-> "progress_bar", value |-> value,
                     node |-> BuildProgressBar(ProgressBarBuilder_new(value))]
    /\ UNCHANGED <<builder, node, registry>>

\* registry.len() and registry.is_empty()
RegistryLen ==
    /\ Ready
    /\ result' = [op |-> "len", len |-> Len(registry), is_empty |-> (Len(registry) = 0)]
    /\ UNCHANGED <<builder, node, registry>>

\* The caller takes the result; the next call can be made.
Return ==
    /\ Idle
    /\ result.op # "none"
    /\ result' = [op |-> "none"]
    /\ UNCHANGED <<builder, node, registry>>

\* The functions and the registry called one after the other, in any order.
NextFn ==
    \/ AutoAccessible \/ DefaultRole \/ ValidateAccessibleProp \/ ProgressBarOf
    \/ ToPropValue \/ RoleAsStr \/ RoleParse \/ RoleValidValues
    \/ RegistryNew \/ RegistryGet \/ RegistryIsValid \/ RegistryComponentNames \/ RegistryLen
    \/ Return

SpecFn == Init /\ [][NextFn]_vars

-----------------------------------------------------------------------------
(* Properties *)

\* The component types each category validator dispatches to a checker.
Handles(category) ==
    CASE category = "layout" -> {"Column", "Row", "Scroll"}
      [] category = "content" -> {"Text", "ProgressBar"}
      [] category = "interactive" -> {"Button", "TextInput"}
      [] category = "list" -> {"ScrollList"}
      [] category = "feedback" -> {"Modal", "Toast"}

\* The last call validated the node in hand with the validator of its own category.
ValidatedByOwn ==
    /\ result.op = "validate"
    /\ node.component_type \in Handles(result.category)

\* An error that is about the "accessible" prop or about a field of it.
IsAccessibleError(e) ==
    \/ e.key = "accessible"
    \/ Len(e.key) > 11 /\ SubSeq(e.key, 1, 11) = "accessible."

\* C1: the node every builder returns from build() carries an "accessible" prop that
\* is a Record whose label is a string and whose role is default_role of the node's
\* component type.
C1_BuiltNodeHasDefaultAccessible ==
    node # NoNode =>
        LET acc == MapGet(node.props, "accessible")
        IN  /\ acc # None
            /\ IsRecord(acc[1])
            /\ extract_string_prop(acc[1].fields, "label") # None
            /\ MapGet(acc[1].fields, "role")
                  = Some(PString(role_as_str(default_role(node.component_type))))

\* C2: the validator of a node's category checks a present "accessible" prop by
\* validate_accessible_prop, its errors about that prop are exactly the errors
\* validate_accessible_prop returns, and so "accessible" is never an unknown prop.
C2_AccessibleIsDelegated ==
    (ValidatedByOwn /\ HasKey(node.props, "accessible")) =>
        SelectSeq(result.errors, IsAccessibleError)
            = validate_accessible_prop(node.component_type, MapGet(node.props, "accessible")[1])

\* The props a builder copies from a PropValue argument hold the documented variant:
\* an action reference, a lambda, a list.
DocumentedArgs(n) ==
    \A i \in 1..Len(n.props) :
        LET k == n.props[i][1]
            v == n.props[i][2]
        IN  /\ k \in {"on_tap", "on_dismiss"} => IsActionRef(v)
            /\ k \in {"on_change", "render", "key", "on_reorder"} => IsLambda(v)
            /\ k = "items" => IsList(v)

\* C3: a node built by a builder from arguments of the documented variants, with any
\* setters called, gets an empty error list from the validator of its category.
C3_BuiltNodeValidates ==
    (ValidatedByOwn /\ DocumentedArgs(node)) => result.errors = <<>>

\* C3 happens: a built node with optional props set went through its validator.
C3_Witness ==
    /\ ValidatedByOwn
    /\ DocumentedArgs(node)
    /\ node.component_type = "Toast"
    /\ HasKey(node.props, "type")
    /\ HasKey(node.props, "duration")

\* C4: ensure_accessible leaves a node that has an "accessible" prop as it is, and a
\* second ensure_accessible changes nothing the first did not.
C4_EnsureAccessibleKeepsExplicit ==
    result.op = "ensure_accessible" =>
        /\ HasKey(result.before.props, "accessible") => node = result.before
        /\ ensure_accessible(node) = node

\* C4 happens: ensure_accessible ran on a node whose "accessible" prop is not the
\* default of its type.
C4_Witness ==
    /\ result.op = "ensure_accessible"
    /\ HasKey(result.before.props, "accessible")
    /\ MapGet(result.before.props, "accessible")[1]
          # to_prop_value(auto_accessible(result.before.component_type, result.before.props))
    /\ result.before.children # <<>>

\* The keys of the "props" object of a serialized surface, in the order written.
WrittenPropKeys(json) ==
    LET root == MapGet(json.members, "root")[1]
        props == MapGet(root.members, "props")[1]
    IN  MapKeys(props.members)

Ascending(keys) == \A i, j \in 1..Len(keys) : i < j => StrLess(keys[i], keys[j])

\* The orders in which n pairs can be inserted.
Orders(n) == {p \in [1..n -> 1..n] : \A i, j \in 1..n : p[i] = p[j] => i = j}

\* set_prop of pairs[p[i]], pairs[p[i+1]], ... on n.
RECURSIVE InsertFrom(_, _, _, _)
InsertFrom(n, pairs, p, i) ==
    IF i > Len(pairs) THEN n
    ELSE InsertFrom(set_prop(n, pairs[p[i]][1], pairs[p[i]][2]), pairs, p, i + 1)

\* A node of the same type and children whose props were inserted in the order p.
InsertedInOrder(n, p) ==
    AddChildren(InsertFrom(NewNode(n.component_type), n.props, p, 1), n.children)

\* C5: the JSON of a node has its prop keys in ascending order, and every node made
\* of the same type, the same pairs inserted in any order and the same children
\* serializes to the same JSON.
C5_JsonIndependentOfInsertionOrder ==
    result.op = "to_json" =>
        /\ Ascending(WrittenPropKeys(result.json))
        /\ \A p \in Orders(Len(node.props)) :
              to_json(Surface(InsertedInOrder(node, p))) = result.json

\* C5 happens: a node with several props and a child was serialized.
C5_Witness ==
    /\ result.op = "to_json"
    /\ Len(node.props) >= 2
    /\ node.children # <<>>

\* C6: reading back the JSON to_json wrote for a surface made by the builders gives
\* a surface equal to it.
C6_JsonRoundTrip ==
    result.op = "from_json" => result.surface = Some(Surface(node))

CountOf(S) == Cardinality(S)

\* Whether a value is of the variant (and, for an enum, among the values) a prop
\* type of the registry asks for.
Matches(pt, v) ==
    CASE pt.ty = "String" -> IsString(v)
      [] pt.ty = "Number" -> IsNumber(v)
      [] pt.ty = "Bool" -> IsBool(v)
      [] pt.ty = "Color" -> IsColor(v)
      [] pt.ty = "Action" -> IsActionRef(v)
      [] pt.ty = "Lambda" -> IsLambda(v)
      [] pt.ty = "List" -> IsList(v)
      [] pt.ty = "Record" -> IsRecord(v)
      [] pt.ty = "Edges" -> IsNumber(v) \/ IsRecord(v)
      [] pt.ty = "Alignment" -> IsString(v) /\ v.s \in Alignments
      [] pt.ty = "StringEnum" -> IsString(v) /\ v.s \in pt.values

\* The defects of an accessible prop: not a record; or, in the record, a label that is
\* missing or no string, a hint or value that is no string, a role that is no role
\* name, a live_region that is neither "polite" nor "assertive", each other field.
AccessibleDefects(v) ==
    IF ~IsRecord(v) THEN 1
    ELSE LET f == v.fields
             IsStr(k) == MapGet(f, k) # None /\ IsString(MapGet(f, k)[1])
             Str(k) == MapGet(f, k)[1].s
         IN  (IF IsStr("label") THEN 0 ELSE 1)
             + CountOf({k \in {"hint", "value"} : HasKey(f, k) /\ ~IsStr(k)})
             + (IF HasKey(f, "role")
                   /\ ~(IsStr("role")
                        /\ Str("role") \in {role_as_str(r) : r \in SemanticRoles})
                THEN 1 ELSE 0)
             + (IF HasKey(f, "live_region")
                   /\ ~(IsStr("live_region") /\ Str("live_region") \in {"polite", "assertive"})
                THEN 1 ELSE 0)
             + CountOf(KeySet(f) \ AccessibleFields)

\* The defects of a node of a component type of the registry, counted against the
\* schema of its type: each required prop that is missing, each present prop of the
\* wrong type or with a value outside its enum, the defects of the accessible
\* record, children where the type accepts none, each key the schema does not list.
Defects(n) ==
    LET def == registry_get(n.component_type)[1]
        defs == def.props
        missing == {i \in 1..Len(defs) :
                       defs[i].requirement = Required /\ ~HasKey(n.props, defs[i].name)}
        wrong == {i \in 1..Len(defs) :
                     /\ defs[i].name # "accessible"
                     /\ HasKey(n.props, defs[i].name)
                     /\ ~Matches(defs[i].prop_type, MapGet(n.props, defs[i].name)[1])}
        unknown == KeySet(n.props) \ {defs[i].name : i \in 1..Len(defs)}
    IN  CountOf(missing) + CountOf(wrong)
        + (IF HasKey(n.props, "accessible")
           THEN AccessibleDefects(MapGet(n.props, "accessible")[1]) ELSE 0)
        + (IF ~def.accepts_children /\ n.children # <<>> THEN 1 ELSE 0)
        + CountOf(unknown)

\* C7: the validator of a node's category returns exactly one error for each defect
\* of the node, whatever other defects the node has.
C7_OneErrorPerDefect ==
    ValidatedByOwn => Len(result.errors) = Defects(node)

\* The requirement the registry gives a prop of a component type, None for a key the
\* schema does not list.
RequirementOf(component_type, key) ==
    LET defs == SchemaProps(component_type)
        at == {i \in 1..Len(defs) : defs[i].name = key}
    IN  IF at = {} THEN None ELSE Some(defs[CHOOSE i \in at : TRUE].requirement)

\* The check an error comes from: 1 a required prop, 2 an optional prop's type or
\* enum, 3 the children, 4 the unknown-prop scan; the errors of the accessible record
\* are given the place accessibleRank.
CheckRank(component_type, e, accessibleRank) ==
    IF e.kind = "children" THEN 3
    ELSE IF e.kind = "unknown_prop" THEN 4
    ELSE IF IsAccessibleError(e) THEN accessibleRank
    ELSE IF RequirementOf(component_type, e.key) = Some(Required) THEN 1
    ELSE 2

\* The errors stand in the order of their checks.
InCheckOrder(component_type, errors, accessibleRank) ==
    \A i, j \in 1..Len(errors) :
        i < j => CheckRank(component_type, errors[i], accessibleRank)
                    <= CheckRank(component_type, errors[j], accessibleRank)

\* The prop an error is about.
PropOf(e) == IF IsAccessibleError(e) THEN "accessible" ELSE e.key

\* The errors stand in the ascending order of the props they are about.
InKeyOrder(errors) ==
    \A i, j \in 1..Len(errors) :
        i < j => (PropOf(errors[i]) = PropOf(errors[j])
                    \/ StrLess(PropOf(errors[i]), PropOf(errors[j])))

OneErrorNaming(errors, component_type) ==
    /\ Len(errors) = 1
    /\ errors[1].kind = "unknown_component"
    /\ errors[1].got = component_type

\* C9 as stated: each of the five category validators returns exactly one error, naming
\* the component type, for a node of a type it does not handle.
C9_UnhandledTypeIsOneError ==
    (result.op = "validate" /\ node.component_type \notin Handles(result.category)) =>
        OneErrorNaming(result.errors, node.component_type)

\* C9 as the code has it: the content, interactive, list and feedback validators return
\* exactly one error, naming the component type, for a node of a type they do not
\* handle; the layout validator returns no error for such a node.
C9_UnhandledTypeIsOneErrorExceptLayout ==
    (result.op = "validate" /\ node.component_type \notin Handles(result.category)) =>
        IF result.category = "layout"
        THEN result.errors = <<>>
        ELSE OneErrorNaming(result.errors, node.component_type)

\* C9 happens: a validator other than the layout one was given a node, with props and
\* children, of a type it does not handle.
C9_Witness ==
    /\ result.op = "validate"
    /\ result.category \in {"content", "interactive", "list", "feedback"}
    /\ node.component_type \notin Handles(result.category)
    /\ node.props # <<>>
    /\ node.children # <<>>

\* C10: validate_layout_node returns the empty list for a node that is no Column, Row
\* or Scroll, whatever its props and children.
C10_LayoutSkipsOtherTypes ==
    (/\ result.op = "validate"
     /\ result.category = "layout"
     /\ node.component_type \notin {"Column", "Row", "Scroll"}) => result.errors = <<>>

\* C10 happens: validate_layout_node was given a node of another type that has a prop
\* no schema knows and a child.
C10_Witness ==
    /\ result.op = "validate"
    /\ result.category = "layout"
    /\ node.component_type \notin {"Column", "Row", "Scroll"}
    /\ \E i \in 1..Len(node.props) : node.props[i][1] \in UnknownKeys
    /\ node.children # <<>>

\* The component types that accept no children, and those that accept them.
Childless == {"Text", "ProgressBar", "Button", "TextInput", "ScrollList", "Toast"}
Containers == {"Column", "Row", "Scroll", "Modal"}

\* The node in hand with its children taken away.
WithoutChildren(n) == [n EXCEPT !.children = <<>>]

\* C11: the validator of a childless component reports exactly one children error when
\* the node has children, however many, and none when it has no child; the result of
\* the validator of a component that accepts children is the result it gives for the
\* same node without its children.
C11_ChildrenErrorOnceOrIgnored ==
    ValidatedByOwn =>
        IF node.component_type \in Childless
        THEN CountOf({i \in 1..Len(result.errors) : result.errors[i].kind = "children"})
                = (IF node.children # <<>> THEN 1 ELSE 0)
        ELSE /\ node.component_type \in Containers
             /\ result.errors = ValidateBy(result.category, WithoutChildren(node))

\* C11 happens: a childless component with two or more children was validated by the
\* validator of its category.
C11_Witness ==
    /\ ValidatedByOwn
    /\ node.component_type \in Childless
    /\ Len(node.children) >= 2
    /\ \E i \in 1..Len(result.errors) : result.errors[i].kind = "children"

\* The label of the info the last auto_accessible call returned.
LabelOf(r) == r.info[1].label

\* The last call was auto_accessible on a Text whose value prop is a string.
TextLabelled ==
    /\ result.op = "auto_accessible"
    /\ result.component_type = "Text"
    /\ extract_string_prop(result.props, "value") # None

\* C12: the default label of a Text node whose value has at most 100 characters is the
\* value; of a longer value it is the first 100 characters followed by one ellipsis
\* character; so the label has at most 101 characters, multi-byte characters or not.
C12_TextLabelTruncatedByCharacters ==
    TextLabelled =>
        LET value == extract_string_prop(result.props, "value")[1]
        IN  /\ result.info # None
            /\ LabelOf(result) = (IF Len(value) <= 100 THEN value
                                  ELSE SubSeq(value, 1, 100) \o Ellipsis)
            /\ Len(LabelOf(result)) <= 101

\* What to_json wrote for the prop of a key of the root node: Some(value) or None.
WrittenProp(json, key) ==
    MapGet(MapGet(MapGet(json.members, "root")[1].members, "props")[1].members, key)

\* The arguments an action reference carries: none where args is None.
ArgumentsOf(v) == IF v.args = None THEN <<>> ELSE v.args[1]

\* C13: an action reference with no arguments (made by action(name), or carrying an
\* empty argument list) is written to JSON without an __args key; one with arguments
\* is written with __args, the list of its arguments in order.
C13_ArgsKeyOnlyWithArguments ==
    result.op = "to_json" =>
        \A i \in 1..Len(node.props) :
            IsActionRef(node.props[i][2]) =>
                LET v == node.props[i][2]
                    written == WrittenProp(result.json, node.props[i][1])
                IN  /\ written # None
                    /\ written[1].j = "obj"
                    /\ MapGet(written[1].members, "__action") = Some(JStr(v.action))
                    /\ IF ArgumentsOf(v) = <<>>
                       THEN ~HasKey(written[1].members, "__args")
                       ELSE MapGet(written[1].members, "__args")
                               = Some(JArr([k \in 1..Len(ArgumentsOf(v)) |->
                                               SerPropValue(ArgumentsOf(v)[k])]))

\* The strings the spec lists as semantic roles.
RoleStrings ==
    {"button", "textfield", "progressbar", "heading", "image", "link", "checkbox",
     "slider", "list", "dialog", "alert", "group", "region", "text", "none"}

\* An accessible record that breaks no rule: label present and a string; hint and
\* value, when present, strings; role, when present, one of the role strings;
\* live_region, when present, "polite" or "assertive"; no other key.
WellFormedAccessible(v) ==
    LET f == v.fields
        StringOrAbsent(k) == ~HasKey(f, k) \/ IsString(MapGet(f, k)[1])
    IN  /\ HasKey(f, "label") /\ IsString(MapGet(f, "label")[1])
        /\ StringOrAbsent("hint") /\ StringOrAbsent("value")
        /\ StringOrAbsent("role") /\ StringOrAbsent("live_region")
        /\ HasKey(f, "role") => MapGet(f, "role")[1].s \in RoleStrings
        /\ HasKey(f, "live_region") => MapGet(f, "live_region")[1].s \in {"polite", "assertive"}
        /\ KeySet(f) \subseteq {"label", "hint", "role", "value", "live_region"}

\* C14: validate_accessible_prop returns exactly one error for a value that is no
\* Record; for a Record it returns the empty list exactly when the record breaks no
\* rule, and otherwise one error per broken rule and one per unknown key.
C14_AccessibleErrorsMatchRules ==
    result.op = "validate_accessible_prop" =>
        IF ~IsRecord(result.prop) THEN Len(result.errors) = 1
        ELSE /\ (result.errors = <<>>) <=> WellFormedAccessible(result.prop)
             /\ Len(result.errors) = AccessibleDefects(result.prop)

\* C14 happens: validate_accessible_prop was given a record that breaks three rules or
\* more and has an unknown key, and returned as many errors as that.
C14_Witness ==
    /\ result.op = "validate_accessible_prop"
    /\ IsRecord(result.prop)
    /\ HasKey(result.prop.fields, "extra")
    /\ ~HasKey(result.prop.fields, "label")
    /\ MapGet(result.prop.fields, "role") = Some(PString("wizard"))
    /\ Len(result.errors) >= 3

\* The ten component names of the spec, in ascending order.
TenNames ==
    <<"Button", "Column", "Modal", "ProgressBar", "Row", "Scroll", "ScrollList", "Text",
      "TextInput", "Toast">>

\* C15: component_names() returns exactly the ten component names, in ascending order
\* and without duplicates, and the schema of every one of them has a prop definition
\* named "accessible".
C15_ComponentNamesSortedWithAccessible ==
    result.op = "component_names" =>
        /\ result.names = TenNames
        /\ \A i \in 1..Len(result.names) :
              LET def == get(registry, result.names[i])
              IN  /\ def # None
                  /\ \E k \in 1..Len(ComponentDef_props(def[1])) :
                        ComponentDef_props(def[1])[k].name = "accessible"

\* C15 happens: component_names() was called and returned ten names.
C15_Witness ==
    /\ result.op = "component_names"
    /\ Len(result.names) = 10

\* C16: in every state of the registry, for every name, is_valid(name) holds exactly
\* when get(name) returns a schema, exactly when the name is, letter for letter, one
\* of the ten component names; the schema returned has the name asked for; and the
\* answers the calls returned are these.
C16_LookupExactlyTheTenNames ==
    /\ \A name \in ComponentTypes \cup OtherNames :
          LET known == \E i \in 1..Len(TenNames) : TenNames[i] = name
          IN  /\ is_valid(registry, name) <=> known
              /\ get(registry, name) # None <=> known
              /\ get(registry, name) # None =>
                    ComponentDef_name(get(registry, name)[1]) = name
    /\ result.op = "is_valid" => result.valid = is_valid(registry, result.name)
    /\ result.op = "get" => result.def = get(registry, result.name)

\* C16 happens: get was asked for a name that differs from a component name only in
\* case, and returned none.
C16_Witness ==
    /\ result.op = "get"
    /\ result.name = "button"
    /\ result.def = None

\* The order of f64: no comparison with NaN holds.
F64Less(a, b) == a # NaN /\ b # NaN /\ a < b

\* C17: the "value" prop of the node the ProgressBar builder builds from a number v is
\* v clamped to [0, 1]: 0 when v < 0, 1 when v > 1, v itself otherwise; so the stored
\* value is within [0, 1].
C17_ProgressValueWithinUnitInterval ==
    result.op = "progress_bar" =>
        LET v == result.value
            stored == MapGet(result.node.props, "value")
        IN  /\ stored # None
            /\ IsNumber(stored[1])
            /\ stored[1].n = (IF F64Less(v, 0) THEN 0 ELSE IF F64Less(1000, v) THEN 1000 ELSE v)
            /\ ~F64Less(stored[1].n, 0) /\ ~F64Less(1000, stored[1].n)
            /\ stored[1].n # NaN

\* build() is called on a Column or Row builder whose padding was set.
BuildsWithPadding ==
    /\ builder # NoBuilder
    /\ builder.kind \in {"Column", "Row"}
    /\ builder.f.padding # None
    /\ builder' = NoBuilder

\* An edge inset whose four sides are the same amount.
SameOnAllSides(e) ==
    e.e = "Uniform" \/ (e.top = e.bottom /\ e.top = e.start /\ e.top = e.end)

\* The record of the four sides of an edge inset.
SidesRecord(e) ==
    PRecord(MapOf(<<<<"top", PNumber(e.top)>>, <<"bottom", PNumber(e.bottom)>>,
                    <<"start", PNumber(e.start)>>, <<"end", PNumber(e.end)>>>>))

\* C18 as stated: build() stores a padding that is the same on all four sides as a
\* bare number, and any other padding as a record with exactly the keys top, bottom,
\* start and end.
C18_PaddingNumberWhenSameOnAllSides ==
    [][BuildsWithPadding =>
          LET e == builder.f.padding[1]
              stored == MapGet(node'.props, "padding")
          IN  /\ stored # None
              /\ IF SameOnAllSides(e) THEN IsNumber(stored[1])
                 ELSE /\ IsRecord(stored[1])
                      /\ KeySet(stored[1].fields) = {"top", "bottom", "start", "end"}]_vars

\* C18, amended: build() stores a padding given as Edges::Uniform(n) as the bare number
\* n, and a padding given as Edges::Sides as the record of its four sides top, bottom,
\* start and end, also when the four sides are equal.
C18_PaddingNumberWhenUniformVariant ==
    [][BuildsWithPadding =>
          LET e == builder.f.padding[1]
              stored == MapGet(node'.props, "padding")
          IN  /\ stored # None
              /\ IF e.e = "Uniform" THEN stored[1] = PNumber(e.n)
                 ELSE /\ stored[1] = SidesRecord(e)
                      /\ KeySet(stored[1].fields) = {"top", "bottom", "start", "end"}]_vars

\* C18 happens: a Column or Row was built whose padding is a record of four equal sides.
C18_Witness ==
    /\ result.op = "build"
    /\ node.component_type \in {"Column", "Row"}
    /\ LET stored == MapGet(node.props, "padding")
       IN  /\ stored # None
           /\ IsRecord(stored[1])
           /\ \A i \in 1..Len(stored[1].fields) : stored[1].fields[i][2] = PNumber(8000)

\* The fixed table of the spec: the role string of each of the ten component types.
RoleTable ==
    <<<<"Button", "button">>, <<"TextInput", "textfield">>, <<"Text", "text">>,
      <<"ProgressBar", "progressbar">>, <<"Column", "group">>, <<"Row", "group">>,
      <<"Scroll", "region">>, <<"ScrollList", "list">>, <<"Modal", "dialog">>,
      <<"Toast", "alert">>>>

\* The role string the table gives a name: "none" for a name it does not list.
TableRole(name) ==
    IF \E i \in 1..Len(RoleTable) : RoleTable[i][1] = name
    THEN RoleTable[CHOOSE i \in 1..Len(RoleTable) : RoleTable[i][1] = name][2]
    ELSE "none"

\* C19: default_role gives each of the ten component types its fixed role and every
\* other string (the empty one, names in another case) the role none; the role of the
\* info auto_accessible returns is default_role of the type, whatever the props.
C19_DefaultRoleTotalAndUsed ==
    /\ result.op = "default_role" =>
          role_as_str(result.role) = TableRole(result.component_type)
    /\ (result.op = "auto_accessible" /\ result.info # None) =>
          /\ result.info[1].role # None
          /\ role_as_str(result.info[1].role[1]) = TableRole(result.component_type)
          /\ result.info[1].role[1] = default_role(result.component_type)

\* C19 happens: auto_accessible was called with props for a name that differs from a
\* component type only in case, and returned the role none.
C19_Witness ==
    /\ result.op = "auto_accessible"
    /\ result.component_type = "button"
    /\ HasKey(result.props, "label")
    /\ result.info # None
    /\ result.info[1].role = Some("None")

\* The props that are strings: every prop holding another variant is taken away.
StringPropsOnly(props) == SelectSeq(props, LAMBDA kv : IsString(kv[2]))

\* The string a prop holds, if it is present and a string.
StringProp(props, key) ==
    IF HasKey(props, key) /\ IsString(MapGet(props, key)[1])
    THEN Some(MapGet(props, key)[1].s) ELSE None

\* The types whose default label the claim fixes: TextInput, the layout containers and
\* every name that is no component type.
ChainTypes == {"TextInput", "Column", "Row", "Scroll"} \cup OtherNames

\* C20: the default label of a TextInput is its string label prop, else its string
\* placeholder prop, else "Text input"; of a Column, Row, Scroll and of any unknown
\* type it is the component type name; a prop that is present but no string counts
\* as absent.
C20_LabelFallbackChain ==
    (result.op = "auto_accessible" /\ result.component_type \in ChainTypes) =>
        LET ty == result.component_type
            props == result.props
        IN  /\ result.info # None
            /\ LabelOf(result) =
                  (IF ty = "TextInput"
                   THEN IF StringProp(props, "label") # None THEN StringProp(props, "label")[1]
                        ELSE IF StringProp(props, "placeholder") # None
                        THEN StringProp(props, "placeholder")[1]
                        ELSE "Text input"
                   ELSE ty)
            /\ LabelOf(result) = auto_accessible(ty, StringPropsOnly(props)).label

\* C20 happens: auto_accessible was called for a TextInput whose label prop is no
\* string and whose placeholder is one, and the label is the placeholder.
C20_Witness ==
    /\ result.op = "auto_accessible"
    /\ result.component_type = "TextInput"
    /\ HasKey(result.props, "label")
    /\ StringProp(result.props, "label") = None
    /\ StringProp(result.props, "placeholder") # None
    /\ result.info # None
    /\ LabelOf(result) = StringProp(result.props, "placeholder")[1]

\* C21: for a Toast auto_accessible sets live_region to assertive and the role to
\* alert, and the label is the message prop where it is a string, "Notification"
\* where there is none; for every other component type it sets no live_region.
C21_ToastAssertiveOthersSilent ==
    result.op = "auto_accessible" =>
        IF result.component_type = "Toast"
        THEN /\ result.info # None
             /\ result.info[1].live_region # None
             /\ live_region_as_str(result.info[1].live_region[1]) = "assertive"
             /\ result.info[1].role # None
             /\ role_as_str(result.info[1].role[1]) = "alert"
             /\ LabelOf(result) =
                   (IF StringProp(result.props, "message") # None
                    THEN StringProp(result.props, "message")[1] ELSE "Notification")
        ELSE result.info # None => result.info[1].live_region = None

\* C21 happens: auto_accessible was called for a Toast whose message prop is present
\* but no string, and for it the label is "Notification".
C21_Witness ==
    /\ result.op = "auto_accessible"
    /\ result.component_type = "Toast"
    /\ HasKey(result.props, "message")
    /\ StringProp(result.props, "message") = None
    /\ result.info # None
    /\ result.info[1].label = "Notification"
    /\ result.info[1].live_region = Some("Assertive")

\* The percentages the numbers of the model can round to.
Percentages == (0 - 60)..160

\* C22: for a ProgressBar whose value prop is a number v, the label is
\* "{pct}% complete" and the value field "{pct}%" with one and the same integer pct,
\* which is a nearest integer of v*100 (for every v that has one: NaN has none); with
\* no value prop, or one that is no number, the label is "Progress bar" and the value
\* field is absent.
C22_ProgressBarPercentInLabelAndValue ==
    (result.op = "auto_accessible" /\ result.component_type = "ProgressBar") =>
        LET got == MapGet(result.props, "value")
        IN  /\ result.info # None
            /\ IF got # None /\ IsNumber(got[1])
               THEN \E pct \in Percentages :
                       /\ LabelOf(result) = ToString(pct) \o "% complete"
                       /\ result.info[1].value = Some(ToString(pct) \o "%")
                       /\ got[1].n # NaN =>
                             /\ 10 * pct - 5 <= got[1].n
                             /\ got[1].n <= 10 * pct + 5
               ELSE /\ LabelOf(result) = "Progress bar"
                    /\ result.info[1].value = None

\* C22 happens: auto_accessible was called for a ProgressBar whose value is 0.758,
\* and the label and the value field say 76.
C22_Witness ==
    /\ result.op = "auto_accessible"
    /\ result.component_type = "ProgressBar"
    /\ MapGet(result.props, "value") = Some(PNumber(758))
    /\ result.info # None
    /\ result.info[1].label = "76% complete"
    /\ result.info[1].value = Some("76%")

OptionalFields == {"hint", "role", "value", "live_region"}

\* C23: to_prop_value returns a Record whose keys are label and each optional field
\* that is set, each holding the string of the field (as_str for role and
\* live_region), and no other AccessibilityInfo converts to the same Record.
C23_ToPropValueLossless ==
    result.op = "to_prop_value" =>
        LET info == result.info
            record == result.record
        IN  /\ IsRecord(record)
            /\ KeySet(record.fields) =
                  {"label"} \cup {f \in OptionalFields : info[f] # None}
            /\ MapGet(record.fields, "label") = Some(PString(info.label))
            /\ info.hint # None =>
                  MapGet(record.fields, "hint") = Some(PString(info.hint[1]))
            /\ info.role # None =>
                  MapGet(record.fields, "role") = Some(PString(role_as_str(info.role[1])))
            /\ info.value # None =>
                  MapGet(record.fields, "value") = Some(PString(info.value[1]))
            /\ info.live_region # None =>
                  MapGet(record.fields, "live_region") =
                     Some(PString(live_region_as_str(info.live_region[1])))
            /\ \A other \in Infos : other # info => to_prop_value(other) # record

\* C23 happens: an info whose hint is the empty string and whose value is not set was
\* converted, and the record has the hint key and no value key.
C23_Witness ==
    /\ result.op = "to_prop_value"
    /\ result.info.hint = Some("")
    /\ result.info.value = None
    /\ result.info.role # None
    /\ HasKey(result.record.fields, "hint")
    /\ ~HasKey(result.record.fields, "value")

\* C24: parse(as_str(r)) = r for every role r and no two roles have the same as_str;
\* parse(s) succeeds exactly for the strings of valid_values(), which are the as_str
\* images of the roles, each once; every other string, a valid value in another
\* letter case included, fails to parse.
C24_RoleEncodingExact ==
    /\ result.op = "as_str" =>
          /\ role_parse(result.str) = Some(result.role)
          /\ \A other \in SemanticRoles : other # result.role => role_as_str(other) # result.str
          /\ \E i \in 1..Len(valid_values) : valid_values[i] = result.str
    /\ result.op = "parse" =>
          /\ result.role # None <=> \E i \in 1..Len(valid_values) : valid_values[i] = result.s
          /\ result.role # None <=> result.s \in RoleStrings
          /\ result.role # None =>
                /\ result.role[1] \in SemanticRoles
                /\ role_as_str(result.role[1]) = result.s
    /\ result.op = "valid_values" =>
          /\ {result.values[i] : i \in 1..Len(result.values)} =
                {role_as_str(r) : r \in SemanticRoles}
          /\ Len(result.values) = Cardinality(SemanticRoles)

\* C24 happens: parse was handed a valid value in another letter case and failed.
C24_Witness ==
    /\ result.op = "parse"
    /\ result.s = "TEXTFIELD"
    /\ result.role = None

\* The names and the Required names of the registry schema of a component type.
SchemaNames(component_type) ==
    {SchemaProps(component_type)[i].name : i \in 1..Len(SchemaProps(component_type))}

SchemaRequired(component_type) ==
    {SchemaProps(component_type)[i].name :
        i \in {j \in 1..Len(SchemaProps(component_type)) :
                  SchemaProps(component_type)[j].requirement = Required}}

\* The keys of the errors of one kind that are about a prop of the node itself.
KeysReported(errors, kind) ==
    {errors[i].key : i \in {j \in 1..Len(errors) :
                              errors[j].kind = kind /\ ~IsAccessibleError(errors[j])}}

\* C25: the validator of a node's category enforces the registry schema of the node's
\* component: a key of the node is reported as an unknown prop exactly when the schema
\* does not name it, the props reported missing are the Required props of the schema
\* the node lacks, and a children error is reported exactly when the node has children
\* and the schema's accepts_children is false.
C25_ValidatorEnforcesRegistrySchema ==
    ValidatedByOwn =>
        LET ty == node.component_type
            def == registry_get(ty)[1]
        IN  /\ \A k \in KeySet(node.props) :
                  (\E i \in 1..Len(result.errors) :
                      result.errors[i].kind = "unknown_prop" /\ result.errors[i].key = k)
                  <=> k \notin SchemaNames(ty)
            /\ KeysReported(result.errors, "required_missing")
                  = SchemaRequired(ty) \ KeySet(node.props)
            /\ (\E i \in 1..Len(result.errors) : result.errors[i].kind = "children")
                  <=> (node.children # <<>> /\ ~def.accepts_children)

\* The number of "accessible" props of a node.
AccessibleCount(n) == Cardinality({i \in 1..Len(n.props) : n.props[i][1] = "accessible"})

\* A step on the node in hand that is no set_prop of the key "accessible": a set_prop
\* of another key, an ensure_accessible, or a call that only reads the node.
KeepsNodeInHand ==
    /\ node # NoNode
    /\ node' # NoNode
    /\ result'.op # "new"
    /\ ~(result'.op = "set_prop" /\ result'.key = "accessible")

\* C26: over set_prop calls on keys other than "accessible" and ensure_accessible
\* calls on one node, the node has at most one "accessible" prop; the prop appears at
\* the first ensure_accessible call, with the value computed from the type and the
\* props the node has at that call, and once present it never changes, also when the
\* props it was computed from change later.
C26_AccessibleSetOnceByDefaulting ==
    [][KeepsNodeInHand =>
          /\ AccessibleCount(node') <= 1
          /\ IF HasKey(node.props, "accessible")
             THEN MapGet(node'.props, "accessible") = MapGet(node.props, "accessible")
             ELSE IF result'.op = "ensure_accessible"
             THEN MapGet(node'.props, "accessible") =
                     Some(to_prop_value(auto_accessible(node.component_type, node.props)))
             ELSE ~HasKey(node'.props, "accessible")]_vars

\* C26 happens: a Button got its default accessible record while it had no label, its
\* label was set afterwards, and the record still has the label of the first call.
C26_Witness ==
    /\ result.op = "set_prop"
    /\ result.key = "label"
    /\ node.component_type = "Button"
    /\ MapGet(node.props, "label") = Some(PString("Hi"))
    /\ MapGet(node.props, "accessible") = Some(to_prop_value(auto_accessible("Button", EmptyMap)))

\* C27: whatever the component type string and the props, the record to_prop_value
\* makes of the info auto_accessible returns draws no error from
\* validate_accessible_prop.
C27_DefaultRecordValidates ==
    (result.op = "auto_accessible" /\ result.info # None) =>
        validate_accessible_prop(result.component_type, to_prop_value(result.info[1])) = <<>>

\* C27 happens: auto_accessible returned an info with role, value and no live_region
\* for a ProgressBar above 100 percent, and its record passes validate_accessible_prop.
C27_Witness ==
    /\ result.op = "auto_accessible"
    /\ result.component_type = "ProgressBar"
    /\ result.info # None
    /\ result.info[1].value = Some("150%")
    /\ KeySet(to_prop_value(result.info[1]).fields) = {"label", "role", "value"}
    /\ validate_accessible_prop("ProgressBar", to_prop_value(result.info[1])) = <<>>

\* C28: ensure_accessible on a node without an "accessible" prop adds that key and no
\* other, with the value auto_accessible(component_type, props).to_prop_value() of the
\* node as it was, and leaves the component type, the children and every other prop
\* as they were.
C28_EnsureAccessibleAddsOnlyDefault ==
    (/\ result.op = "ensure_accessible"
     /\ ~result.panicked
     /\ ~HasKey(result.before.props, "accessible")) =>
        LET before == result.before
        IN  /\ node.component_type = before.component_type
            /\ node.children = before.children
            /\ KeySet(node.props) = KeySet(before.props) \cup {"accessible"}
            /\ Len(node.props) = Len(before.props) + 1
            /\ \A k \in KeySet(before.props) : MapGet(node.props, k) = MapGet(before.props, k)
            /\ MapGet(node.props, "accessible") =
                  Some(to_prop_value(auto_accessible(before.component_type, before.props)))

\* C28 happens: ensure_accessible was called on a TextInput with children and two
\* props, a placeholder among them, and none of them "accessible"; the node now has
\* the accessible prop, labelled by the placeholder.
C28_Witness ==
    /\ result.op = "ensure_accessible"
    /\ ~result.panicked
    /\ result.before.component_type = "TextInput"
    /\ Len(result.before.props) = 2
    /\ HasKey(result.before.props, "placeholder")
    /\ ~HasKey(result.before.props, "accessible")
    /\ result.before.children # <<>>
    /\ Len(node.props) = 3
    /\ MapGet(node.props, "accessible") # None
    /\ MapGet(MapGet(node.props, "accessible")[1].fields, "label") = Some(PString("Hi"))

\* The "children" array of the root of a serialized surface.
WrittenChildren(json) ==
    MapGet(MapGet(json.members, "root")[1].members, "children")[1].items

\* The "type" of a serialized node.
WrittenType(x) == MapGet(x.members, "type")[1]

\* C29: in the container builders child(c) puts c after the children added so far and
\* children(v) puts v in place of them; build() hands the list so made to the node, in
\* that order, and to_json writes the node's children in that order.
C29_ChildrenInCallOrder ==
    [][/\ (builder # NoBuilder /\ builder' # NoBuilder /\ builder'.children # builder.children) =>
             \/ /\ result'.op = "child"
                /\ builder'.children = builder.children \o <<result'.child>>
             \/ /\ result'.op = "children"
                /\ builder'.children = result'.children
       /\ (builder # NoBuilder /\ result'.op = "build"
              /\ builder.kind \in {"Column", "Row", "Scroll", "Modal"}) =>
             node'.children = builder.children
       /\ result'.op = "to_json" =>
             /\ Len(WrittenChildren(result'.json)) = Len(node.children)
             /\ \A i \in 1..Len(node.children) :
                   /\ WrittenChildren(result'.json)[i] = SerNode(node.children[i])
                   /\ WrittenType(WrittenChildren(result'.json)[i])
                         = JStr(node.children[i].component_type)]_vars

\* C29 happens: a container built with two children of different types, a Row and
\* then a Text, was serialized, and the JSON has the Row first and the Text second.
C29_Witness ==
    /\ result.op = "to_json"
    /\ node.component_type \in {"Column", "Row", "Scroll"}
    /\ Len(node.children) = 2
    /\ node.children[1].component_type = "Row"
    /\ node.children[2].component_type = "Text"
    /\ WrittenType(WrittenChildren(result.json)[1]) = JStr("Row")
    /\ WrittenType(WrittenChildren(result.json)[2]) = JStr("Text")

\* The fields the setters of a builder store their argument in.
SetterFields(kind) == {fa[1] : fa \in SetterArgs(kind)}

\* The prop key build() writes a setter's field under.
PropKey(name) == IF name = "toast_type" THEN "type" ELSE name

\* C30: the node a builder returns has only prop keys that the registry schema of its
\* component type names and has every prop the schema marks Required; a setter stores
\* its argument in place of what an earlier call of it stored, and build() writes the
\* prop of a setter exactly when the setter was called, once, from what is stored.
C30_BuiltPropsWithinSchema ==
    [][/\ (result'.op = "setter" /\ builder # NoBuilder /\ builder' # NoBuilder
              /\ builder'.calls = builder.calls + 1) =>
             /\ builder'.f[result'.name] = Some(result'.arg)
             /\ \A name \in DOMAIN builder.f \ {result'.name} :
                   builder'.f[name] = builder.f[name]
       /\ (result'.op = "build" /\ builder # NoBuilder) =>
             /\ node'.component_type = builder.kind
             /\ KeySet(node'.props) \subseteq SchemaNames(builder.kind)
             /\ SchemaRequired(builder.kind) \subseteq KeySet(node'.props)
             /\ Cardinality(KeySet(node'.props)) = Len(node'.props)
             /\ \A name \in SetterFields(builder.kind) :
                   HasKey(node'.props, PropKey(name)) <=> builder.f[name] # None
             /\ (builder.kind \in {"Column", "Row"} /\ builder.f.spacing # None) =>
                   MapGet(node'.props, "spacing") = Some(PNumber(builder.f.spacing[1]))
             /\ (builder.kind = "TextInput" /\ builder.f.max_length # None) =>
                   MapGet(node'.props, "max_length") = Some(PNumber(builder.f.max_length[1]))
             /\ (builder.kind = "Toast" /\ builder.f.toast_type # None) =>
                   MapGet(node'.props, "type")
                      = Some(PString(ToastType_as_str(builder.f.toast_type[1])))]_vars

\* C30 happens: the spacing setter of a ColumnBuilder was called twice, no other
\* setter was, the last call was spacing(16.0) and the builder holds 16.0.
C30_Witness ==
    /\ builder # NoBuilder
    /\ builder.kind = "Column"
    /\ result.op = "setter"
    /\ result.name = "spacing"
    /\ builder.calls = 2
    /\ builder.f.align = None
    /\ builder.f.padding = None
    /\ builder.f.spacing = Some(16000)
    /\ result.arg = 16000

====
